---------------------------- MODULE Spec2Model ----------------------------
(***************************************************************************)
(* jrn: an encrypted-at-rest journal.  A State (cleartext password and a   *)
(* map Date -> entry text) is saved as one JSON document holding a bcrypt  *)
(* hash of the password, a base64 PBKDF2 salt and, per entry, the date in  *)
(* clear, a base64 nonce and a base64 AES-GCM-SIV digest.                  *)
(*                                                                         *)
(* Texts (Rust String / &str) and byte buffers (Vec<u8>, [u8; N]) are both *)
(* sequences of byte values 0..255; a String holds the UTF-8 form of its   *)
(* characters.                                                             *)
(***************************************************************************)
EXTENDS Integers, Sequences, FiniteSets, TLC

(***************************************************************************)
(* Bytes and texts                                                         *)
(***************************************************************************)

Min(a, b) == IF a < b THEN a ELSE b

\* The sequence s with every element computed (a tuple rather than a function
\* expression that is evaluated again at each use).
SeqOf(s) == <<>> \o s

\* ASCII codes used by the formats below.
ChDollar == 36
ChPlus == 43
ChDash == 45
ChDot == 46
ChSlash == 47
ChZero == 48
ChEquals == 61

IsDigit(c) == c >= 48 /\ c <= 57

\* Rust's String::from_utf8 accepts exactly the well-formed UTF-8 byte
\* sequences: one to four bytes per character, no overlong form (lead bytes
\* C0, C1, E0 with a second byte below A0, F0 with a second byte below 90),
\* no surrogate (ED with a second byte above 9F) and nothing above U+10FFFF
\* (F4 with a second byte above 8F, lead bytes F5..FF).
RECURSIVE IsUtf8(_)
IsUtf8(b) ==
    LET Cont(k) == Len(b) >= k /\ b[k] >= 128 /\ b[k] <= 191
        Second(lo, hi) == Len(b) >= 2 /\ b[2] >= lo /\ b[2] <= hi
    IN  IF b = <<>> THEN TRUE
        ELSE IF b[1] < 128 THEN IsUtf8(Tail(b))
        ELSE IF b[1] >= 194 /\ b[1] <= 223
        THEN Cont(2) /\ IsUtf8(SubSeq(b, 3, Len(b)))
        ELSE IF b[1] >= 224 /\ b[1] <= 239
        THEN /\ Second(IF b[1] = 224 THEN 160 ELSE 128, IF b[1] = 237 THEN 159 ELSE 191)
             /\ Cont(3)
             /\ IsUtf8(SubSeq(b, 4, Len(b)))
        ELSE IF b[1] >= 240 /\ b[1] <= 244
        THEN /\ Second(IF b[1] = 240 THEN 144 ELSE 128, IF b[1] = 244 THEN 143 ELSE 191)
             /\ Cont(3) /\ Cont(4)
             /\ IsUtf8(SubSeq(b, 5, Len(b)))
        ELSE FALSE

\* A 16-bit checksum of a byte sequence and its expansion to n bytes, the
\* building blocks of the idealised cryptographic primitives below (bcrypt,
\* PBKDF2, AES-GCM-SIV): an output depends on every byte of the input and on
\* its length, and the expansion keeps both bytes of the checksum.
RECURSIVE WeightedSum(_, _)
WeightedSum(b, k) ==
    IF k = 0 THEN 0
    ELSE b[k] * (((k * 7) % 251) + 1) + WeightedSum(b, k - 1)

Digest(b) == (Len(b) * 31 + WeightedSum(b, Len(b))) % 65521

Expand(seed, n) ==
    SeqOf([i \in 1..n |->
        ((IF i % 2 = 1 THEN seed \div 256 ELSE seed % 256) + i * 7) % 256])

(***************************************************************************)
(* base64 (BASE64_STANDARD of the base64 crate: standard alphabet, padding *)
(* required, canonical trailing bits required)                             *)
(***************************************************************************)

SaltLen == 32
NonceLen == 12

B64Char(v) ==
    IF v < 26 THEN 65 + v
    ELSE IF v < 52 THEN 97 + (v - 26)
    ELSE IF v < 62 THEN 48 + (v - 52)
    ELSE IF v = 62 THEN ChPlus
    ELSE ChSlash

\* The 6-bit value of an alphabet character, -1 for any other byte.
B64Val(c) ==
    IF c >= 65 /\ c <= 90 THEN c - 65
    ELSE IF c >= 97 /\ c <= 122 THEN c - 97 + 26
    ELSE IF c >= 48 /\ c <= 57 THEN c - 48 + 52
    ELSE IF c = ChPlus THEN 62
    ELSE IF c = ChSlash THEN 63
    ELSE -1

ByteAt(b, k) == IF k <= Len(b) THEN b[k] ELSE 0

Pow64(e) == IF e = 0 THEN 1 ELSE IF e = 1 THEN 64 ELSE IF e = 2 THEN 4096 ELSE 262144

\* Mutant: an engine that writes no padding (STANDARD_NO_PAD).
Base64EncodeNoPad(b) ==
    LET n == Len(b)
        chars == (4 * n + 2) \div 3
        charAt(k) ==
            LET g == (k - 1) \div 4
                j == (k - 1) % 4
                v == ByteAt(b, 3 * g + 1) * 65536 + ByteAt(b, 3 * g + 2) * 256
                     + ByteAt(b, 3 * g + 3)
            IN  B64Char((v \div Pow64(3 - j)) % 64)
    IN  SeqOf([k \in 1..chars |-> charAt(k)])

\* BASE64_STANDARD.encode: every 3 bytes give 4 characters, a last group of 1
\* or 2 bytes is padded with '='.
Base64Encode(b) ==
    LET n == Len(b)
        groups == (n + 2) \div 3
        charAt(k) ==
            LET g == (k - 1) \div 4
                j == (k - 1) % 4
                v == ByteAt(b, 3 * g + 1) * 65536 + ByteAt(b, 3 * g + 2) * 256
                     + ByteAt(b, 3 * g + 3)
            IN  IF j >= 2 /\ 3 * g + j > n THEN ChEquals
                ELSE B64Char((v \div Pow64(3 - j)) % 64)
    IN  SeqOf([k \in 1..(4 * groups) |-> charAt(k)])

\* BASE64_STANDARD.decode: [ok |-> FALSE] for a DecodeError, else the bytes.
Base64Decode(t) ==
    LET n == Len(t)
        pad == IF n >= 2 /\ t[n] = ChEquals /\ t[n - 1] = ChEquals THEN 2
               ELSE IF n >= 1 /\ t[n] = ChEquals THEN 1
               ELSE 0
        groups == n \div 4
        val(k) == B64Val(t[k])
        outLen == 3 * groups - pad
        word(g) == val(4 * g + 1) * 262144 + val(4 * g + 2) * 4096
                   + (IF 4 * g + 3 > n - pad THEN 0 ELSE val(4 * g + 3)) * 64
                   + (IF 4 * g + 4 > n - pad THEN 0 ELSE val(4 * g + 4))
        byteAt(k) ==
            LET g == (k - 1) \div 3
                j == (k - 1) % 3
            IN  (word(g) \div (IF j = 0 THEN 65536 ELSE IF j = 1 THEN 256 ELSE 1)) % 256
        wellFormed ==
            /\ n % 4 = 0
            /\ \A k \in 1..(n - pad) : val(k) >= 0
            /\ pad = 1 => val(n - 1) % 4 = 0
            /\ pad = 2 => val(n - 2) % 16 = 0
    IN  IF wellFormed
        THEN [ok |-> TRUE, bytes |-> SeqOf([k \in 1..outLen |-> byteAt(k)])]
        ELSE [ok |-> FALSE, bytes |-> <<>>]

(***************************************************************************)
(* Date (src/date.rs)                                                      *)
(***************************************************************************)

MkDate(y, m, d) == [year |-> y, month |-> m, day |-> d]

\* chrono::Local::now() when Date::from_str reads it.  date and secs are the
\* day and the second of the day of the instant in UTC, offset is what the
\* zone's local time is ahead of UTC, in seconds (a zone with one offset at
\* all times): 2024-03-02 05:00 UTC in a zone twelve hours behind UTC, where
\* it is 17:00 on 2024-03-01.
Local_now == [date |-> MkDate(2024, 3, 2), secs |-> 18000, offset |-> 0 - 43200]

\* What chrono::Local::now() can give each time Date::today() reads it: that
\* instant, or one eight hours later, when it is 01:00 on 2024-03-02 there.
Clock == {Local_now, [Local_now EXCEPT !.secs = 46800]}

RECURSIVE FmtNat(_)
FmtNat(n) == IF n < 10 THEN <<ChZero + n>> ELSE FmtNat(n \div 10) \o <<ChZero + (n % 10)>>

\* "{}" of a signed integer.
FmtInt(n) == IF n < 0 THEN <<ChDash>> \o FmtNat(0 - n) ELSE FmtNat(n)

\* "{:02}" of an unsigned integer: zero-padded to at least two digits.
FmtPad2(n) == IF n < 10 THEN <<ChZero, ChZero + n>> ELSE FmtNat(n)

\* impl Display for Date: write!(f, "{}-{:02}-{:02}", year, month, day)
Date_to_string(d) ==
    FmtInt(d.year) \o <<ChDash>> \o FmtPad2(d.month) \o <<ChDash>> \o FmtPad2(d.day)

\* char::is_whitespace, the test of str::trim: the characters with the Unicode
\* property White_Space (U+0009..U+000D, U+0020, U+0085, U+00A0, U+1680,
\* U+2000..U+200A, U+2028, U+2029, U+202F, U+205F, U+3000).  c is the UTF-8
\* form of one character.
IsSpace(c) ==
    \/ Len(c) = 1 /\ (c[1] = 32 \/ (c[1] >= 9 /\ c[1] <= 13))
    \/ Len(c) = 2 /\ c[1] = 194 /\ c[2] \in {133, 160}
    \/ Len(c) = 3 /\ c[1] = 225 /\ c[2] = 154 /\ c[3] = 128
    \/ Len(c) = 3 /\ c[1] = 226 /\ c[2] = 128
                  /\ ((c[3] >= 128 /\ c[3] <= 138) \/ c[3] \in {168, 169, 175})
    \/ Len(c) = 3 /\ c[1] = 226 /\ c[2] = 129 /\ c[3] = 159
    \/ Len(c) = 3 /\ c[1] = 227 /\ c[2] = 128 /\ c[3] = 128

\* str::trim_start: the text after its leading white-space characters.
RECURSIVE TrimStart(_)
TrimStart(s) ==
    IF s = <<>> THEN s
    ELSE LET w == IF s[1] < 192 THEN 1 ELSE IF s[1] < 224 THEN 2 ELSE IF s[1] < 240 THEN 3 ELSE 4
         IN  IF w <= Len(s) /\ IsSpace(SubSeq(s, 1, w))
             THEN TrimStart(SubSeq(s, w + 1, Len(s)))
             ELSE s

\* str::trim_end: the text before its trailing white-space characters.  The
\* last character starts at the last byte that is not a continuation byte
\* (80..BF).
RECURSIVE TrimEnd(_)
TrimEnd(s) ==
    IF s = <<>> THEN s
    ELSE LET n == Len(s)
             Cont(k) == s[k] >= 128 /\ s[k] < 192
             w == IF ~Cont(n) \/ n = 1 THEN 1
                  ELSE IF ~Cont(n - 1) \/ n = 2 THEN 2
                  ELSE IF ~Cont(n - 2) \/ n = 3 THEN 3
                  ELSE 4
         IN  IF IsSpace(SubSeq(s, n - w + 1, n))
             THEN TrimEnd(SubSeq(s, 1, n - w))
             ELSE s

\* str::trim
Trim(s) == TrimEnd(TrimStart(s))

\* str::to_lowercase: every character is replaced by its Unicode lowercase
\* mapping (tables of Unicode 17.0), which is one character except for U+0130
\* (an i followed by U+0307); a capital sigma (U+03A3) becomes a final sigma
\* (U+03C2) when, skipping the characters that case ignores, a cased letter
\* comes before it and none comes after it, and a small sigma (U+03C3)
\* otherwise.  The bytes are the UTF-8 form of the text.
ToLowercase(s) ==
    LET \* <<first, last, step, delta>>: the characters first, first + step, ...
        \* up to last have the lowercase character delta code points further.
        to_lower ==
          { <<65,90,1,32>>, <<192,214,1,32>>, <<216,222,1,32>>, <<256,302,2,1>>, <<306,310,2,1>>,
            <<313,327,2,1>>, <<330,374,2,1>>, <<376,376,1,-121>>, <<377,381,2,1>>,
            <<385,385,1,210>>, <<386,388,2,1>>, <<390,390,1,206>>, <<391,391,1,1>>,
            <<393,394,1,205>>, <<395,395,1,1>>, <<398,398,1,79>>, <<399,399,1,202>>,
            <<400,400,1,203>>, <<401,401,1,1>>, <<403,403,1,205>>, <<404,404,1,207>>,
            <<406,406,1,211>>, <<407,407,1,209>>, <<408,408,1,1>>, <<412,412,1,211>>,
            <<413,413,1,213>>, <<415,415,1,214>>, <<416,420,2,1>>, <<422,422,1,218>>,
            <<423,423,1,1>>, <<425,425,1,218>>, <<428,428,1,1>>, <<430,430,1,218>>,
            <<431,431,1,1>>, <<433,434,1,217>>, <<435,437,2,1>>, <<439,439,1,219>>,
            <<440,440,1,1>>, <<444,444,1,1>>, <<452,452,1,2>>, <<453,453,1,1>>, <<455,455,1,2>>,
            <<456,456,1,1>>, <<458,458,1,2>>, <<459,475,2,1>>, <<478,494,2,1>>, <<497,497,1,2>>,
            <<498,500,2,1>>, <<502,502,1,-97>>, <<503,503,1,-56>>, <<504,542,2,1>>,
            <<544,544,1,-130>>, <<546,562,2,1>>, <<570,570,1,10795>>, <<571,571,1,1>>,
            <<573,573,1,-163>>, <<574,574,1,10792>>, <<577,577,1,1>>, <<579,579,1,-195>>,
            <<580,580,1,69>>, <<581,581,1,71>>, <<582,590,2,1>>, <<880,882,2,1>>,
            <<886,886,1,1>>, <<895,895,1,116>>, <<902,902,1,38>>, <<904,906,1,37>>,
            <<908,908,1,64>>, <<910,911,1,63>>, <<913,929,1,32>>, <<931,939,1,32>>,
            <<975,975,1,8>>, <<984,1006,2,1>>, <<1012,1012,1,-60>>, <<1015,1015,1,1>>,
            <<1017,1017,1,-7>>, <<1018,1018,1,1>>, <<1021,1023,1,-130>>, <<1024,1039,1,80>>,
            <<1040,1071,1,32>>, <<1120,1152,2,1>>, <<1162,1214,2,1>>, <<1216,1216,1,15>>,
            <<1217,1229,2,1>>, <<1232,1326,2,1>>, <<1329,1366,1,48>>, <<4256,4293,1,7264>>,
            <<4295,4295,1,7264>>, <<4301,4301,1,7264>>, <<5024,5103,1,38864>>, <<5104,5109,1,8>>,
            <<7305,7305,1,1>>, <<7312,7354,1,-3008>>, <<7357,7359,1,-3008>>, <<7680,7828,2,1>>,
            <<7838,7838,1,-7615>>, <<7840,7934,2,1>>, <<7944,7951,1,-8>>, <<7960,7965,1,-8>>,
            <<7976,7983,1,-8>>, <<7992,7999,1,-8>>, <<8008,8013,1,-8>>, <<8025,8031,2,-8>>,
            <<8040,8047,1,-8>>, <<8072,8079,1,-8>>, <<8088,8095,1,-8>>, <<8104,8111,1,-8>>,
            <<8120,8121,1,-8>>, <<8122,8123,1,-74>>, <<8124,8124,1,-9>>, <<8136,8139,1,-86>>,
            <<8140,8140,1,-9>>, <<8152,8153,1,-8>>, <<8154,8155,1,-100>>, <<8168,8169,1,-8>>,
            <<8170,8171,1,-112>>, <<8172,8172,1,-7>>, <<8184,8185,1,-128>>, <<8186,8187,1,-126>>,
            <<8188,8188,1,-9>>, <<8486,8486,1,-7517>>, <<8490,8490,1,-8383>>,
            <<8491,8491,1,-8262>>, <<8498,8498,1,28>>, <<8544,8559,1,16>>, <<8579,8579,1,1>>,
            <<9398,9423,1,26>>, <<11264,11311,1,48>>, <<11360,11360,1,1>>,
            <<11362,11362,1,-10743>>, <<11363,11363,1,-3814>>, <<11364,11364,1,-10727>>,
            <<11367,11371,2,1>>, <<11373,11373,1,-10780>>, <<11374,11374,1,-10749>>,
            <<11375,11375,1,-10783>>, <<11376,11376,1,-10782>>, <<11378,11378,1,1>>,
            <<11381,11381,1,1>>, <<11390,11391,1,-10815>>, <<11392,11490,2,1>>,
            <<11499,11501,2,1>>, <<11506,11506,1,1>>, <<42560,42604,2,1>>, <<42624,42650,2,1>>,
            <<42786,42798,2,1>>, <<42802,42862,2,1>>, <<42873,42875,2,1>>,
            <<42877,42877,1,-35332>>, <<42878,42886,2,1>>, <<42891,42891,1,1>>,
            <<42893,42893,1,-42280>>, <<42896,42898,2,1>>, <<42902,42920,2,1>>,
            <<42922,42922,1,-42308>>, <<42923,42923,1,-42319>>, <<42924,42924,1,-42315>>,
            <<42925,42925,1,-42305>>, <<42926,42926,1,-42308>>, <<42928,42928,1,-42258>>,
            <<42929,42929,1,-42282>>, <<42930,42930,1,-42261>>, <<42931,42931,1,928>>,
            <<42932,42946,2,1>>, <<42948,42948,1,-48>>, <<42949,42949,1,-42307>>,
            <<42950,42950,1,-35384>>, <<42951,42953,2,1>>, <<42955,42955,1,-42343>>,
            <<42956,42970,2,1>>, <<42972,42972,1,-42561>>, <<42997,42997,1,1>>,
            <<65313,65338,1,32>>, <<66560,66599,1,40>>, <<66736,66771,1,40>>,
            <<66928,66938,1,39>>, <<66940,66954,1,39>>, <<66956,66962,1,39>>,
            <<66964,66965,1,39>>, <<68736,68786,1,64>>, <<68944,68965,1,32>>,
            <<71840,71871,1,32>>, <<93760,93791,1,32>>, <<93856,93880,1,27>>,
            <<125184,125217,1,34>> }
        \* <<first, last>>: the characters with the property Cased that do not
        \* have the property Case_Ignorable.
        Cased ==
          { <<65,90>>, <<97,122>>, <<170,170>>, <<181,181>>, <<186,186>>, <<192,214>>,
            <<216,246>>, <<248,442>>, <<444,447>>, <<452,659>>, <<662,687>>, <<880,883>>,
            <<886,887>>, <<891,893>>, <<895,895>>, <<902,902>>, <<904,906>>, <<908,908>>,
            <<910,929>>, <<931,1013>>, <<1015,1153>>, <<1162,1327>>, <<1329,1366>>,
            <<1376,1416>>, <<4256,4293>>, <<4295,4295>>, <<4301,4301>>, <<4304,4346>>,
            <<4349,4351>>, <<5024,5109>>, <<5112,5117>>, <<7296,7306>>, <<7312,7354>>,
            <<7357,7359>>, <<7424,7467>>, <<7531,7543>>, <<7545,7578>>, <<7680,7957>>,
            <<7960,7965>>, <<7968,8005>>, <<8008,8013>>, <<8016,8023>>, <<8025,8025>>,
            <<8027,8027>>, <<8029,8029>>, <<8031,8061>>, <<8064,8116>>, <<8118,8124>>,
            <<8126,8126>>, <<8130,8132>>, <<8134,8140>>, <<8144,8147>>, <<8150,8155>>,
            <<8160,8172>>, <<8178,8180>>, <<8182,8188>>, <<8450,8450>>, <<8455,8455>>,
            <<8458,8467>>, <<8469,8469>>, <<8473,8477>>, <<8484,8484>>, <<8486,8486>>,
            <<8488,8488>>, <<8490,8493>>, <<8495,8500>>, <<8505,8505>>, <<8508,8511>>,
            <<8517,8521>>, <<8526,8526>>, <<8544,8575>>, <<8579,8580>>, <<9398,9449>>,
            <<11264,11387>>, <<11390,11492>>, <<11499,11502>>, <<11506,11507>>, <<11520,11557>>,
            <<11559,11559>>, <<11565,11565>>, <<42560,42605>>, <<42624,42651>>, <<42786,42863>>,
            <<42865,42887>>, <<42891,42894>>, <<42896,42972>>, <<42997,42998>>, <<43002,43002>>,
            <<43824,43866>>, <<43872,43880>>, <<43888,43967>>, <<64256,64262>>, <<64275,64279>>,
            <<65313,65338>>, <<65345,65370>>, <<66560,66639>>, <<66736,66771>>, <<66776,66811>>,
            <<66928,66938>>, <<66940,66954>>, <<66956,66962>>, <<66964,66965>>, <<66967,66977>>,
            <<66979,66993>>, <<66995,67001>>, <<67003,67004>>, <<68736,68786>>, <<68800,68850>>,
            <<68944,68965>>, <<68976,68997>>, <<71840,71903>>, <<93760,93823>>, <<93856,93880>>,
            <<93883,93907>>, <<119808,119892>>, <<119894,119964>>, <<119966,119967>>,
            <<119970,119970>>, <<119973,119974>>, <<119977,119980>>, <<119982,119993>>,
            <<119995,119995>>, <<119997,120003>>, <<120005,120069>>, <<120071,120074>>,
            <<120077,120084>>, <<120086,120092>>, <<120094,120121>>, <<120123,120126>>,
            <<120128,120132>>, <<120134,120134>>, <<120138,120144>>, <<120146,120485>>,
            <<120488,120512>>, <<120514,120538>>, <<120540,120570>>, <<120572,120596>>,
            <<120598,120628>>, <<120630,120654>>, <<120656,120686>>, <<120688,120712>>,
            <<120714,120744>>, <<120746,120770>>, <<120772,120779>>, <<122624,122633>>,
            <<122635,122654>>, <<122661,122666>>, <<125184,125251>>, <<127280,127305>>,
            <<127312,127337>>, <<127344,127369>> }
        \* <<first, last>>: the characters with the property Case_Ignorable.
        Case_Ignorable ==
          { <<39,39>>, <<46,46>>, <<58,58>>, <<94,94>>, <<96,96>>, <<168,168>>, <<173,173>>,
            <<175,175>>, <<180,180>>, <<183,184>>, <<688,879>>, <<884,885>>, <<890,890>>,
            <<900,901>>, <<903,903>>, <<1155,1161>>, <<1369,1369>>, <<1375,1375>>, <<1425,1469>>,
            <<1471,1471>>, <<1473,1474>>, <<1476,1477>>, <<1479,1479>>, <<1524,1524>>,
            <<1536,1541>>, <<1552,1562>>, <<1564,1564>>, <<1600,1600>>, <<1611,1631>>,
            <<1648,1648>>, <<1750,1757>>, <<1759,1768>>, <<1770,1773>>, <<1807,1807>>,
            <<1809,1809>>, <<1840,1866>>, <<1958,1968>>, <<2027,2037>>, <<2042,2042>>,
            <<2045,2045>>, <<2070,2093>>, <<2137,2139>>, <<2184,2184>>, <<2192,2193>>,
            <<2199,2207>>, <<2249,2306>>, <<2362,2362>>, <<2364,2364>>, <<2369,2376>>,
            <<2381,2381>>, <<2385,2391>>, <<2402,2403>>, <<2417,2417>>, <<2433,2433>>,
            <<2492,2492>>, <<2497,2500>>, <<2509,2509>>, <<2530,2531>>, <<2558,2558>>,
            <<2561,2562>>, <<2620,2620>>, <<2625,2626>>, <<2631,2632>>, <<2635,2637>>,
            <<2641,2641>>, <<2672,2673>>, <<2677,2677>>, <<2689,2690>>, <<2748,2748>>,
            <<2753,2757>>, <<2759,2760>>, <<2765,2765>>, <<2786,2787>>, <<2810,2815>>,
            <<2817,2817>>, <<2876,2876>>, <<2879,2879>>, <<2881,2884>>, <<2893,2893>>,
            <<2901,2902>>, <<2914,2915>>, <<2946,2946>>, <<3008,3008>>, <<3021,3021>>,
            <<3072,3072>>, <<3076,3076>>, <<3132,3132>>, <<3134,3136>>, <<3142,3144>>,
            <<3146,3149>>, <<3157,3158>>, <<3170,3171>>, <<3201,3201>>, <<3260,3260>>,
            <<3263,3263>>, <<3270,3270>>, <<3276,3277>>, <<3298,3299>>, <<3328,3329>>,
            <<3387,3388>>, <<3393,3396>>, <<3405,3405>>, <<3426,3427>>, <<3457,3457>>,
            <<3530,3530>>, <<3538,3540>>, <<3542,3542>>, <<3633,3633>>, <<3636,3642>>,
            <<3654,3662>>, <<3761,3761>>, <<3764,3772>>, <<3782,3782>>, <<3784,3790>>,
            <<3864,3865>>, <<3893,3893>>, <<3895,3895>>, <<3897,3897>>, <<3953,3966>>,
            <<3968,3972>>, <<3974,3975>>, <<3981,3991>>, <<3993,4028>>, <<4038,4038>>,
            <<4141,4144>>, <<4146,4151>>, <<4153,4154>>, <<4157,4158>>, <<4184,4185>>,
            <<4190,4192>>, <<4209,4212>>, <<4226,4226>>, <<4229,4230>>, <<4237,4237>>,
            <<4253,4253>>, <<4348,4348>>, <<4957,4959>>, <<5906,5908>>, <<5938,5939>>,
            <<5970,5971>>, <<6002,6003>>, <<6068,6069>>, <<6071,6077>>, <<6086,6086>>,
            <<6089,6099>>, <<6103,6103>>, <<6109,6109>>, <<6155,6159>>, <<6211,6211>>,
            <<6277,6278>>, <<6313,6313>>, <<6432,6434>>, <<6439,6440>>, <<6450,6450>>,
            <<6457,6459>>, <<6679,6680>>, <<6683,6683>>, <<6742,6742>>, <<6744,6750>>,
            <<6752,6752>>, <<6754,6754>>, <<6757,6764>>, <<6771,6780>>, <<6783,6783>>,
            <<6823,6823>>, <<6832,6877>>, <<6880,6891>>, <<6912,6915>>, <<6964,6964>>,
            <<6966,6970>>, <<6972,6972>>, <<6978,6978>>, <<7019,7027>>, <<7040,7041>>,
            <<7074,7077>>, <<7080,7081>>, <<7083,7085>>, <<7142,7142>>, <<7144,7145>>,
            <<7149,7149>>, <<7151,7153>>, <<7212,7219>>, <<7222,7223>>, <<7288,7293>>,
            <<7376,7378>>, <<7380,7392>>, <<7394,7400>>, <<7405,7405>>, <<7412,7412>>,
            <<7416,7417>>, <<7468,7530>>, <<7544,7544>>, <<7579,7679>>, <<8125,8125>>,
            <<8127,8129>>, <<8141,8143>>, <<8157,8159>>, <<8173,8175>>, <<8189,8190>>,
            <<8203,8207>>, <<8216,8217>>, <<8228,8228>>, <<8231,8231>>, <<8234,8238>>,
            <<8288,8292>>, <<8294,8303>>, <<8305,8305>>, <<8319,8319>>, <<8336,8348>>,
            <<8400,8432>>, <<11388,11389>>, <<11503,11505>>, <<11631,11631>>, <<11647,11647>>,
            <<11744,11775>>, <<11823,11823>>, <<12293,12293>>, <<12330,12333>>, <<12337,12341>>,
            <<12347,12347>>, <<12441,12446>>, <<12540,12542>>, <<40981,40981>>, <<42232,42237>>,
            <<42508,42508>>, <<42607,42610>>, <<42612,42621>>, <<42623,42623>>, <<42652,42655>>,
            <<42736,42737>>, <<42752,42785>>, <<42864,42864>>, <<42888,42890>>, <<42993,42996>>,
            <<43000,43001>>, <<43010,43010>>, <<43014,43014>>, <<43019,43019>>, <<43045,43046>>,
            <<43052,43052>>, <<43204,43205>>, <<43232,43249>>, <<43263,43263>>, <<43302,43309>>,
            <<43335,43345>>, <<43392,43394>>, <<43443,43443>>, <<43446,43449>>, <<43452,43453>>,
            <<43471,43471>>, <<43493,43494>>, <<43561,43566>>, <<43569,43570>>, <<43573,43574>>,
            <<43587,43587>>, <<43596,43596>>, <<43632,43632>>, <<43644,43644>>, <<43696,43696>>,
            <<43698,43700>>, <<43703,43704>>, <<43710,43711>>, <<43713,43713>>, <<43741,43741>>,
            <<43756,43757>>, <<43763,43764>>, <<43766,43766>>, <<43867,43871>>, <<43881,43883>>,
            <<44005,44005>>, <<44008,44008>>, <<44013,44013>>, <<64286,64286>>, <<64434,64450>>,
            <<65024,65039>>, <<65043,65043>>, <<65056,65071>>, <<65106,65106>>, <<65109,65109>>,
            <<65279,65279>>, <<65287,65287>>, <<65294,65294>>, <<65306,65306>>, <<65342,65342>>,
            <<65344,65344>>, <<65392,65392>>, <<65438,65439>>, <<65507,65507>>, <<65529,65531>>,
            <<66045,66045>>, <<66272,66272>>, <<66422,66426>>, <<67456,67461>>, <<67463,67504>>,
            <<67506,67514>>, <<68097,68099>>, <<68101,68102>>, <<68108,68111>>, <<68152,68154>>,
            <<68159,68159>>, <<68325,68326>>, <<68900,68903>>, <<68942,68942>>, <<68969,68973>>,
            <<68975,68975>>, <<69291,69292>>, <<69317,69317>>, <<69370,69375>>, <<69446,69456>>,
            <<69506,69509>>, <<69633,69633>>, <<69688,69702>>, <<69744,69744>>, <<69747,69748>>,
            <<69759,69761>>, <<69811,69814>>, <<69817,69818>>, <<69821,69821>>, <<69826,69826>>,
            <<69837,69837>>, <<69888,69890>>, <<69927,69931>>, <<69933,69940>>, <<70003,70003>>,
            <<70016,70017>>, <<70070,70078>>, <<70089,70092>>, <<70095,70095>>, <<70191,70193>>,
            <<70196,70196>>, <<70198,70199>>, <<70206,70206>>, <<70209,70209>>, <<70367,70367>>,
            <<70371,70378>>, <<70400,70401>>, <<70459,70460>>, <<70464,70464>>, <<70502,70508>>,
            <<70512,70516>>, <<70587,70592>>, <<70606,70606>>, <<70608,70608>>, <<70610,70610>>,
            <<70625,70626>>, <<70712,70719>>, <<70722,70724>>, <<70726,70726>>, <<70750,70750>>,
            <<70835,70840>>, <<70842,70842>>, <<70847,70848>>, <<70850,70851>>, <<71090,71093>>,
            <<71100,71101>>, <<71103,71104>>, <<71132,71133>>, <<71219,71226>>, <<71229,71229>>,
            <<71231,71232>>, <<71339,71339>>, <<71341,71341>>, <<71344,71349>>, <<71351,71351>>,
            <<71453,71453>>, <<71455,71455>>, <<71458,71461>>, <<71463,71467>>, <<71727,71735>>,
            <<71737,71738>>, <<71995,71996>>, <<71998,71998>>, <<72003,72003>>, <<72148,72151>>,
            <<72154,72155>>, <<72160,72160>>, <<72193,72202>>, <<72243,72248>>, <<72251,72254>>,
            <<72263,72263>>, <<72273,72278>>, <<72281,72283>>, <<72330,72342>>, <<72344,72345>>,
            <<72544,72544>>, <<72546,72548>>, <<72550,72550>>, <<72752,72758>>, <<72760,72765>>,
            <<72767,72767>>, <<72850,72871>>, <<72874,72880>>, <<72882,72883>>, <<72885,72886>>,
            <<73009,73014>>, <<73018,73018>>, <<73020,73021>>, <<73023,73029>>, <<73031,73031>>,
            <<73104,73105>>, <<73109,73109>>, <<73111,73111>>, <<73177,73177>>, <<73459,73460>>,
            <<73472,73473>>, <<73526,73530>>, <<73536,73536>>, <<73538,73538>>, <<73562,73562>>,
            <<78896,78912>>, <<78919,78933>>, <<90398,90409>>, <<90413,90415>>, <<92912,92916>>,
            <<92976,92982>>, <<92992,92995>>, <<93504,93506>>, <<93547,93548>>, <<94031,94031>>,
            <<94095,94111>>, <<94176,94177>>, <<94179,94180>>, <<94194,94195>>,
            <<110576,110579>>, <<110581,110587>>, <<110589,110590>>, <<113821,113822>>,
            <<113824,113827>>, <<118528,118573>>, <<118576,118598>>, <<119143,119145>>,
            <<119155,119170>>, <<119173,119179>>, <<119210,119213>>, <<119362,119364>>,
            <<121344,121398>>, <<121403,121452>>, <<121461,121461>>, <<121476,121476>>,
            <<121499,121503>>, <<121505,121519>>, <<122880,122886>>, <<122888,122904>>,
            <<122907,122913>>, <<122915,122916>>, <<122918,122922>>, <<122928,122989>>,
            <<123023,123023>>, <<123184,123197>>, <<123566,123566>>, <<123628,123631>>,
            <<124139,124143>>, <<124398,124399>>, <<124643,124643>>, <<124646,124646>>,
            <<124654,124655>>, <<124661,124661>>, <<124671,124671>>, <<125136,125142>>,
            <<125252,125259>>, <<127995,127999>>, <<917505,917505>>, <<917536,917631>>,
            <<917760,917999>> }
        Width(b) == IF b < 192 THEN 1 ELSE IF b < 224 THEN 2 ELSE IF b < 240 THEN 3 ELSE 4
        RECURSIVE Decode(_)
        Decode(b) ==
            IF b = <<>> THEN <<>>
            ELSE LET w == Min(Width(b[1]), Len(b))
                     Low(k) == b[k] % 64
                     c == IF w = 1 THEN b[1]
                          ELSE IF w = 2 THEN (b[1] % 32) * 64 + Low(2)
                          ELSE IF w = 3 THEN (b[1] % 16) * 4096 + Low(2) * 64 + Low(3)
                          ELSE (b[1] % 8) * 262144 + Low(2) * 4096 + Low(3) * 64 + Low(4)
                 IN  <<c>> \o Decode(SubSeq(b, w + 1, Len(b)))
        Encode(c) ==
            IF c < 128 THEN <<c>>
            ELSE IF c < 2048 THEN <<192 + (c \div 64), 128 + (c % 64)>>
            ELSE IF c < 65536
            THEN <<224 + (c \div 4096), 128 + ((c \div 64) % 64), 128 + (c % 64)>>
            ELSE <<240 + (c \div 262144), 128 + ((c \div 4096) % 64),
                   128 + ((c \div 64) % 64), 128 + (c % 64)>>
        chars == Decode(s)
        In(c, ranges) == \E r \in ranges : r[1] <= c /\ c <= r[2]
        RECURSIVE case_ignorable_then_cased(_, _)
        case_ignorable_then_cased(k, step) ==
            IF k < 1 \/ k > Len(chars) THEN FALSE
            ELSE IF In(chars[k], Case_Ignorable)
            THEN case_ignorable_then_cased(k + step, step)
            ELSE In(chars[k], Cased)
        map_uppercase_sigma(i) ==
            LET is_word_final == /\ case_ignorable_then_cased(i - 1, 0 - 1)
                                 /\ ~case_ignorable_then_cased(i + 1, 1)
            IN  IF is_word_final THEN <<962>> ELSE <<963>>
        Lower(c) ==
            IF c = 304 THEN <<105, 775>>
            ELSE LET hit == { r \in to_lower : r[1] <= c /\ c <= r[2] /\ (c - r[1]) % r[3] = 0 }
                 IN  IF hit = {} THEN <<c>> ELSE <<c + (CHOOSE r \in hit : TRUE)[4]>>
        RECURSIVE Bytes(_)
        Bytes(cs) == IF cs = <<>> THEN <<>> ELSE Encode(cs[1]) \o Bytes(Tail(cs))
        RECURSIVE Build(_)
        Build(i) ==
            IF i > Len(chars) THEN <<>>
            ELSE Bytes(IF chars[i] = 931 THEN map_uppercase_sigma(i) ELSE Lower(chars[i]))
                 \o Build(i + 1)
    IN  IF \A k \in 1..Len(s) : s[k] < 128
        THEN SeqOf([k \in 1..Len(s) |-> IF s[k] >= 65 /\ s[k] <= 90 THEN s[k] + 32 ELSE s[k]])
        ELSE Build(1)

StartsWith(s, p) == Len(s) >= Len(p) /\ SubSeq(s, 1, Len(p)) = p

\* str::split(sep): the pieces between the separators (always at least one).
RECURSIVE SplitFrom(_, _, _)
SplitFrom(s, sep, cur) ==
    IF s = <<>> THEN <<cur>>
    ELSE IF s[1] = sep THEN <<cur>> \o SplitFrom(Tail(s), sep, <<>>)
    ELSE SplitFrom(Tail(s), sep, Append(cur, s[1]))

Split(s, sep) == SplitFrom(s, sep, <<>>)

MaxI32 == 2147483647
MaxU8 == 255

\* The value of a digit string, or -1 when it exceeds cap (the checked
\* multiply-and-add of Rust's integer parsing).
RECURSIVE DecValue(_, _, _)
DecValue(ds, acc, cap) ==
    IF ds = <<>> THEN acc
    ELSE LET d == ds[1] - ChZero
         IN  IF acc > (cap - d) \div 10 THEN -1
             ELSE DecValue(Tail(ds), acc * 10 + d, cap)

AllDigits(s) == \A k \in 1..Len(s) : IsDigit(s[k])

RECURSIVE TrimZeros(_)
TrimZeros(s) == IF Len(s) > 1 /\ s[1] = ChZero THEN TrimZeros(Tail(s)) ELSE s

\* str::parse::<i32>: optional '+' or '-', then at least one digit, in range.
ParseI32(s) ==
    LET neg == s # <<>> /\ s[1] = ChDash
        body == IF s # <<>> /\ s[1] \in {ChDash, ChPlus} THEN Tail(s) ELSE s
        mag == IF body # <<>> /\ AllDigits(body) THEN DecValue(body, 0, MaxI32) ELSE -1
    IN  IF body = <<>> \/ ~AllDigits(body) THEN [ok |-> FALSE, val |-> 0]
        ELSE IF mag >= 0 THEN [ok |-> TRUE, val |-> IF neg THEN 0 - mag ELSE mag]
        ELSE IF neg /\ TrimZeros(body) = FmtNat(MaxI32 \div 10) \o <<ChZero + 8>>
             THEN [ok |-> TRUE, val |-> (0 - MaxI32) - 1]
        ELSE [ok |-> FALSE, val |-> 0]

\* str::parse::<u8>: optional '+', then at least one digit, at most 255.
ParseU8(s) ==
    LET body == IF s # <<>> /\ s[1] = ChPlus THEN Tail(s) ELSE s
        v == IF body # <<>> /\ AllDigits(body) THEN DecValue(body, 0, MaxU8) ELSE -1
    IN  IF v >= 0 THEN [ok |-> TRUE, val |-> v] ELSE [ok |-> FALSE, val |-> 0]

IsLeap(y) == y % 4 = 0 /\ (y % 100 # 0 \/ y % 400 = 0)

DaysInMonth(y, m) ==
    IF m = 2 THEN (IF IsLeap(y) THEN 29 ELSE 28)
    ELSE IF m \in {4, 6, 9, 11} THEN 30
    ELSE 31

MinYear == -262143
MaxYear == 262142

\* chrono::NaiveDate::from_ymd_opt(y, m, d).is_some()
NaiveDate_from_ymd_opt(y, m, d) ==
    /\ y >= MinYear /\ y <= MaxYear
    /\ m >= 1 /\ m <= 12
    /\ d >= 1 /\ d <= DaysInMonth(y, m)

\* Days since 1970-01-01 of a proleptic Gregorian date, and back.
DaysFromCivil(date) ==
    LET y == IF date.month <= 2 THEN date.year - 1 ELSE date.year
        era == y \div 400
        yoe == y - era * 400
        mp == IF date.month > 2 THEN date.month - 3 ELSE date.month + 9
        doy == (153 * mp + 2) \div 5 + date.day - 1
        doe == yoe * 365 + yoe \div 4 - yoe \div 100 + doy
    IN  era * 146097 + doe - 719468

CivilFromDays(z0) ==
    LET z == z0 + 719468
        era == z \div 146097
        doe == z - era * 146097
        yoe == (doe - doe \div 1460 + doe \div 36524 - doe \div 146096) \div 365
        doy == doe - (365 * yoe + yoe \div 4 - yoe \div 100)
        mp == (5 * doy + 2) \div 153
        d == doy - (153 * mp + 2) \div 5 + 1
        m == IF mp < 10 THEN mp + 3 ELSE mp - 9
        y == yoe + era * 400
    IN  MkDate(IF m <= 2 THEN y + 1 ELSE y, m, d)

\* Date::today(): the year, month and day of current_date, which is what
\* Local::now() gave, in local time.
Date_today(current_date) ==
    CivilFromDays(DaysFromCivil(current_date.date)
                    + ((current_date.secs + current_date.offset) \div 86400))

DateOk(d) == [ok |-> TRUE, date |-> d, err |-> "none"]
DateErr(e) == [ok |-> FALSE, date |-> MkDate(0, 0, 0), err |-> e]

TextToday == <<116, 111, 100, 97, 121>>

\* str::parse::<u128>: optional '+', then at least one digit, below 2^128.
\* The value is kept as eight 16-bit limbs, the lowest first; each digit is a
\* checked multiply by ten and a checked add.
ParseU128(s) ==
    LET body == IF s # <<>> /\ s[1] = ChPlus THEN Tail(s) ELSE s
        RECURSIVE MulAdd(_, _, _)
        MulAdd(limbs, k, carry) ==
            IF k > Len(limbs) THEN <<carry>>
            ELSE LET v == limbs[k] * 10 + carry
                 IN  <<v % 65536>> \o MulAdd(limbs, k + 1, v \div 65536)
        RECURSIVE Value(_, _)
        Value(ds, acc) ==
            IF ds = <<>> THEN [ok |-> TRUE, limbs |-> acc]
            ELSE LET r == MulAdd(acc, 1, ds[1] - ChZero)
                 IN  IF r[9] # 0 THEN [ok |-> FALSE, limbs |-> <<>>]
                     ELSE Value(Tail(ds), SubSeq(r, 1, 8))
    IN  IF body = <<>> \/ ~AllDigits(body) THEN [ok |-> FALSE, limbs |-> <<>>]
        ELSE Value(body, <<0, 0, 0, 0, 0, 0, 0, 0>>)

\* `as i64` of a u128: the low 64 bits read as two's complement.  near says
\* that the value is within 2^30 of zero, val is then the value; a day count
\* that is not near is beyond what the calendar spans from any date.
AsI64(limbs) ==
    IF limbs[4] = 0 /\ limbs[3] = 0 /\ limbs[2] < 16384
    THEN [near |-> TRUE, val |-> limbs[2] * 65536 + limbs[1]]
    ELSE IF limbs[4] = 65535 /\ limbs[3] = 65535 /\ limbs[2] >= 49152
    THEN [near |-> TRUE, val |-> 0 - ((65535 - limbs[2]) * 65536 + (65536 - limbs[1]))]
    ELSE [near |-> FALSE, val |-> 0]

\* The relative form "today-N" (date.rs lines 75-109): N is parsed as u128 and
\* cast to i64, so a negative count leads forward.  TimeDelta::try_days gives
\* None for a count whose milliseconds do not fit i64, checked_sub_signed
\* moves the instant Local::now() and gives None when the result, in UTC, is
\* not a day of the years MinYear..MaxYear; the Date is the year, month and
\* day of the result in local time.
Date_from_today_minus(rest) ==
    IF rest = <<>> THEN DateOk(Date_today(Local_now))
    ELSE IF rest[1] # ChDash THEN DateErr("InvalidTodayMinusFormat")
    ELSE LET minus_days == ParseU128(Trim(Tail(rest)))
         IN  IF ~minus_days.ok THEN DateErr("InvalidTodayMinusFormat")
             ELSE LET days == AsI64(minus_days.limbs)
                      utc == DaysFromCivil(Local_now.date) - days.val
                      chrono_with_delta ==
                          CivilFromDays(utc + ((Local_now.secs + Local_now.offset) \div 86400))
                  IN  IF ~days.near THEN DateErr("InvalidDate")
                      ELSE IF utc < DaysFromCivil(MkDate(MinYear, 1, 1))
                                \/ utc > DaysFromCivil(MkDate(MaxYear, 12, 31))
                      THEN DateErr("InvalidDate")
                      ELSE DateOk(chrono_with_delta)

\* impl FromStr for Date.
Date_from_str(text) ==
    LET FromParts(y, m, d) ==
            IF y.ok /\ m.ok /\ d.ok
            THEN IF NaiveDate_from_ymd_opt(y.val, m.val, d.val)
                 THEN DateOk(MkDate(y.val, m.val, d.val))
                 ELSE DateErr("InvalidDate")
            ELSE DateErr("IsNotNumeric")
        FromItems(items) ==
            IF Len(items) # 3 THEN DateErr("InvalidLength")
            ELSE FromParts(ParseI32(items[1]), ParseU8(items[2]), ParseU8(items[3]))
        FromLower(s) ==
            IF StartsWith(s, TextToday)
            THEN Date_from_today_minus(Trim(SubSeq(s, 6, Len(s))))
            ELSE FromItems(Split(s, ChDash))
    IN  FromLower(ToLowercase(Trim(text)))

(***************************************************************************)
(* The Secure encryptor (src/encryptor.rs).  bcrypt, PBKDF2-HMAC-SHA256    *)
(* and AES-256-GCM-SIV are idealised: each output byte is a checksum of    *)
(* all the inputs, so that equal inputs give equal outputs and, over the   *)
(* model's values, different inputs give different outputs.  What is kept  *)
(* exactly is what the libraries do with the shape of their inputs: bcrypt *)
(* reads at most 72 bytes of the password, a hash string is                *)
(* "$2b$<cost>$<22 salt chars><31 hash chars>", a digest is the ciphertext *)
(* followed by a 16-byte tag.                                              *)
(***************************************************************************)

\* bcrypt's alphabet "./A-Za-z0-9".
BcryptChar(v) ==
    IF v = 0 THEN ChDot
    ELSE IF v = 1 THEN ChSlash
    ELSE IF v < 28 THEN 65 + (v - 2)
    ELSE IF v < 54 THEN 97 + (v - 28)
    ELSE 48 + (v - 54)

IsBcryptChar(c) ==
    \/ c = ChDot \/ c = ChSlash
    \/ (c >= 65 /\ c <= 90) \/ (c >= 97 /\ c <= 122) \/ IsDigit(c)

BcryptMaxLen == 72
BcryptSaltChars == 22
BcryptHashChars == 31
DEFAULT_COST == 12
TagLen == 16
KeyLen == 32

\* bcrypt reads the password up to its 72nd byte and ignores the rest.
BcryptTruncate(password) == SubSeq(password, 1, Min(Len(password), BcryptMaxLen))

BcryptDigest(cost, salt, password) ==
    LET seed == (cost + 3 * Digest(salt) + 7 * Digest(BcryptTruncate(password))) % 65521
        bytes == Expand(seed, BcryptHashChars)
    IN  SeqOf([j \in 1..BcryptHashChars |-> BcryptChar(bytes[j] % 64)])

\* "$2b$12$" and what follows: bcrypt::hash(password, cost) with the 16 random
\* salt bytes given as their 22 characters.
BcryptHash(password, cost, salt) ==
    <<ChDollar, 50, 98, ChDollar>> \o FmtPad2(cost) \o <<ChDollar>> \o salt
        \o BcryptDigest(cost, salt, password)

\* bcrypt::verify(password, hash): Err for a string that is no bcrypt hash.
BcryptVerify(password, hash) ==
    LET parts == Split(hash, ChDollar)
        cost == IF Len(parts) >= 3 THEN DecValue(parts[3], 0, 99) ELSE -1
        wellFormed ==
            /\ Len(parts) >= 4
            /\ Len(parts[2]) = 2 /\ parts[2][1] = 50 /\ parts[2][2] \in {97, 98, 120, 121}
            /\ parts[3] # <<>> /\ AllDigits(parts[3])
            /\ cost >= 4 /\ cost <= 31
            /\ Len(parts[4]) = BcryptSaltChars + BcryptHashChars
            /\ \A k \in 1..Len(parts[4]) : IsBcryptChar(parts[4][k])
    IN  IF ~wellFormed THEN [ok |-> FALSE, val |-> FALSE]
        ELSE [ok |-> TRUE,
              val |-> SubSeq(parts[4], BcryptSaltChars + 1, Len(parts[4]))
                      = BcryptDigest(cost, SubSeq(parts[4], 1, BcryptSaltChars), password)]

\* Secure::hash_password; the salt bcrypt draws is the second argument.
hash_password(password, bsalt) == BcryptHash(password, DEFAULT_COST, bsalt)

\* Secure::verify_password: bcrypt::verify(..).unwrap()
verify_password(hashed_password, entered_password) ==
    LET r == BcryptVerify(entered_password, hashed_password)
    IN  IF r.ok THEN [tag |-> "Ok", val |-> r.val] ELSE [tag |-> "Panic", val |-> FALSE]

\* Secure::gen_key: PBKDF2-HMAC-SHA256(password, kdf_salt, 300_000) -> 32 bytes.
gen_key(password, kdf_salt) ==
    Expand((3 * Digest(password) + 5 * Digest(kdf_salt) + 1) % 65521, KeyLen)

AesTag(key, nonce, bytes) ==
    Expand((3 * Digest(key) + 5 * Digest(nonce) + 7 * Digest(bytes) + 11) % 65521, TagLen)

AesStream(key, nonce, i) == key[((i - 1) % KeyLen) + 1] + nonce[((i - 1) % NonceLen) + 1]

\* Secure::aes_encrypt: ciphertext followed by the authentication tag.
aes_encrypt(key, nonce, cleartext) ==
    SeqOf([i \in 1..Len(cleartext) |-> (cleartext[i] + AesStream(key, nonce, i)) % 256])
        \o AesTag(key, nonce, cleartext)

\* Secure::aes_decrypt: cipher.decrypt(..).unwrap(), String::from_utf8(..).unwrap()
aes_decrypt(key, nonce, ciphertext) ==
    LET n == Len(ciphertext) - TagLen
        clear == SeqOf([i \in 1..n |-> (ciphertext[i] + 512 - AesStream(key, nonce, i)) % 256])
    IN  IF n < 0 THEN [tag |-> "Panic", text |-> <<>>]
        ELSE IF SubSeq(ciphertext, n + 1, n + TagLen) # AesTag(key, nonce, clear)
        THEN [tag |-> "Panic", text |-> <<>>]
        ELSE IF ~IsUtf8(clear) THEN [tag |-> "Panic", text |-> <<>>]
        ELSE [tag |-> "Ok", text |-> clear]

\* Secure::encrypt_journal_entry; the nonce rng.gen() draws is the last argument.
encrypt_journal_entry(key, entry, date, nonce) ==
    [date |-> date, nonce |-> nonce, digest |-> aes_encrypt(key, nonce, entry)]

\* Mutant: decrypts with an all-zero nonce instead of the entry's stored nonce.
decrypt_journal_entry_zero_nonce(key, entry) ==
    LET r == aes_decrypt(key, [i \in 1..NonceLen |-> 0], entry.digest)
    IN  [tag |-> r.tag, date |-> entry.date, text |-> r.text]

\* Secure::decrypt_journal_entry
decrypt_journal_entry(key, entry) ==
    LET r == aes_decrypt(key, entry.nonce, entry.digest)
    IN  [tag |-> r.tag, date |-> entry.date, text |-> r.text]

(***************************************************************************)
(* State, EncryptedJournal and the Encryptor's provided methods            *)
(***************************************************************************)

\* State::new()
State_new == [password |-> <<>>, entries |-> [d \in {} |-> <<>>]]

\* Encryptor::encrypt_journal.  bsalt, ksalt and nonceOf are what the three
\* random sources return during the call; the second component is the
\* sequence of primitive calls made.
encrypt_journal(journal, bsalt, ksalt, nonceOf) ==
    LET password_hash == hash_password(journal.password, bsalt)
        key == gen_key(journal.password, ksalt)
    IN  [password_hash |-> password_hash,
         kdf_salt |-> ksalt,
         entries |-> { encrypt_journal_entry(key, journal.entries[d], d, nonceOf[d]) :
                         d \in DOMAIN journal.entries }]

encrypt_journal_calls(journal) ==
    <<"hash_password", "make_kdf_salt", "gen_key">>
        \o [i \in 1..Cardinality(DOMAIN journal.entries) |-> "encrypt_journal_entry"]

\* The maps a HashMap can end up as when the pairs of a set are collected
\* into it: one pair per key, any of the pairs of that key (the last one
\* inserted wins, and the set's iteration order is arbitrary).
CollectMaps(pairs) ==
    LET keys == { p.date : p \in pairs }
    IN  { m \in [keys -> { p.text : p \in pairs }] :
            \A k \in keys : \E p \in pairs : p.date = k /\ p.text = m[k] }

\* Mutant: the key is derived before the password is verified.
decrypt_journal_key_first(encrypted_journal, password) ==
    LET key == gen_key(password, encrypted_journal.kdf_salt)
        v == verify_password(encrypted_journal.password_hash, password)
        dec == { decrypt_journal_entry(key, e) : e \in encrypted_journal.entries }
        n == Cardinality(encrypted_journal.entries)
        good == Cardinality({ e \in encrypted_journal.entries :
                                decrypt_journal_entry(key, e).tag = "Ok" })
        calls(k) == <<"gen_key", "verify_password">>
                        \o [i \in 1..k |-> "decrypt_journal_entry"]
    IN  IF v.tag = "Panic"
        THEN { [tag |-> "Panic", err |-> "none", state |-> State_new, calls |-> calls(0)] }
        ELSE IF ~v.val
        THEN { [tag |-> "Err", err |-> "IncorrectPassword", state |-> State_new,
                calls |-> calls(0)] }
        ELSE IF good < n
        THEN { [tag |-> "Panic", err |-> "none", state |-> State_new, calls |-> calls(k)] :
                 k \in 1..(good + 1) }
        ELSE { [tag |-> "Ok", err |-> "none",
                state |-> [password |-> password, entries |-> m],
                calls |-> calls(n)] : m \in CollectMaps(dec) }

\* Encryptor::decrypt_journal: the outcomes the call can have, each with the
\* primitive calls made, in order.
decrypt_journal(encrypted_journal, password) ==
    LET v == verify_password(encrypted_journal.password_hash, password)
        key == gen_key(password, encrypted_journal.kdf_salt)
        dec == { decrypt_journal_entry(key, e) : e \in encrypted_journal.entries }
        n == Cardinality(encrypted_journal.entries)
        good == Cardinality({ e \in encrypted_journal.entries :
                                decrypt_journal_entry(key, e).tag = "Ok" })
        calls(k) == <<"verify_password", "gen_key">>
                        \o [i \in 1..k |-> "decrypt_journal_entry"]
    IN  IF v.tag = "Panic"
        THEN { [tag |-> "Panic", err |-> "none", state |-> State_new,
                calls |-> <<"verify_password">>] }
        ELSE IF ~v.val
        THEN { [tag |-> "Err", err |-> "IncorrectPassword", state |-> State_new,
                calls |-> <<"verify_password">>] }
        ELSE IF good < n
        THEN { [tag |-> "Panic", err |-> "none", state |-> State_new, calls |-> calls(k)] :
                 k \in 1..(good + 1) }
        ELSE { [tag |-> "Ok", err |-> "none",
                state |-> [password |-> password, entries |-> m],
                calls |-> calls(n)] : m \in CollectMaps(dec) }

(***************************************************************************)
(* ZeroSecurity (src/encryptor.rs): no hashing and no encryption           *)
(***************************************************************************)

\* Default::default() of [u8; N]
Zeros(n) == SeqOf([i \in 1..n |-> 0])

ZeroSecurity_gen_key(password, kdf_salt) == Zeros(KeyLen)

ZeroSecurity_make_kdf_salt == Zeros(SaltLen)

\* Mutant: the password is written reversed.
ZeroSecurity_hash_password_reversed(password) ==
    SeqOf([i \in 1..Len(password) |-> password[Len(password) + 1 - i]])

ZeroSecurity_hash_password(password) == password

ZeroSecurity_verify_password(hashed_password, entered_password) ==
    hashed_password = entered_password

ZeroSecurity_encrypt_journal_entry(key, entry, date) ==
    [date |-> date, nonce |-> Zeros(NonceLen), digest |-> entry]

\* String::from_utf8(entry.digest.clone()).unwrap()
ZeroSecurity_decrypt_journal_entry(key, entry) ==
    IF IsUtf8(entry.digest)
    THEN [tag |-> "Ok", date |-> entry.date, text |-> entry.digest]
    ELSE [tag |-> "Panic", date |-> entry.date, text |-> <<>>]

\* Encryptor::encrypt_journal with ZeroSecurity's primitives
ZeroSecurity_encrypt_journal(journal) ==
    LET password_hash == ZeroSecurity_hash_password(journal.password)
        kdf_salt == ZeroSecurity_make_kdf_salt
        key == ZeroSecurity_gen_key(journal.password, kdf_salt)
    IN  [password_hash |-> password_hash,
         kdf_salt |-> kdf_salt,
         entries |-> { ZeroSecurity_encrypt_journal_entry(key, journal.entries[d], d) :
                         d \in DOMAIN journal.entries }]

\* Encryptor::decrypt_journal with ZeroSecurity's primitives
ZeroSecurity_decrypt_journal(encrypted_journal, password) ==
    LET key == ZeroSecurity_gen_key(password, encrypted_journal.kdf_salt)
        dec == { ZeroSecurity_decrypt_journal_entry(key, e) : e \in encrypted_journal.entries }
        calls == <<"verify_password", "gen_key">>
                    \o [i \in 1..Cardinality(encrypted_journal.entries) |->
                          "decrypt_journal_entry"]
        good == Cardinality({ e \in encrypted_journal.entries :
                                ZeroSecurity_decrypt_journal_entry(key, e).tag = "Ok" })
    IN  IF ~ZeroSecurity_verify_password(encrypted_journal.password_hash, password)
        THEN { [tag |-> "Err", err |-> "IncorrectPassword", state |-> State_new,
                calls |-> <<"verify_password">>] }
        ELSE IF \E x \in dec : x.tag = "Panic"
        THEN { [tag |-> "Panic", err |-> "none", state |-> State_new,
                calls |-> SubSeq(calls, 1, 2 + k)] : k \in 1..(good + 1) }
        ELSE { [tag |-> "Ok", err |-> "none",
                state |-> [password |-> password, entries |-> m],
                calls |-> calls] : m \in CollectMaps(dec) }

(***************************************************************************)
(* EncryptedJournal <-> StoredJournal (src/db.rs)                          *)
(***************************************************************************)

\* impl From<EncryptedEntry> for StoredEntry
StoredEntry_from(value) ==
    [date |-> value.date,
     nonce |-> Base64Encode(value.nonce),
     digest |-> Base64Encode(value.digest)]

\* impl From<EncryptedJournal> for StoredJournal
StoredJournal_from(value) ==
    [password_hash |-> value.password_hash,
     kdf_salt |-> Base64Encode(value.kdf_salt),
     entries |-> { StoredEntry_from(e) : e \in value.entries }]

\* Mutant: the decoded bytes are cut or zero-padded to N instead of rejected.
try_b64_to_arr_fitting(n, str) ==
    LET decoded == Base64Decode(str)
    IN  IF ~decoded.ok THEN [ok |-> FALSE, val |-> <<>>, err |-> "NotValidBase64"]
        ELSE [ok |-> TRUE,
              val |-> SeqOf([i \in 1..n |-> ByteAt(decoded.bytes, i)]),
              err |-> "none"]

\* try_b64_to_arr::<N>
try_b64_to_arr(n, str) ==
    LET decoded == Base64Decode(str)
    IN  IF ~decoded.ok THEN [ok |-> FALSE, val |-> <<>>, err |-> "NotValidBase64"]
        ELSE IF Len(decoded.bytes) = n THEN [ok |-> TRUE, val |-> decoded.bytes, err |-> "none"]
        ELSE [ok |-> FALSE, val |-> <<>>, err |-> "InvalidLength"]

\* try_b64_to_vec
try_b64_to_vec(str) ==
    LET decoded == Base64Decode(str)
    IN  IF decoded.ok THEN [ok |-> TRUE, val |-> decoded.bytes, err |-> "none"]
        ELSE [ok |-> FALSE, val |-> <<>>, err |-> "NotValidBase64"]

\* impl TryFrom<StoredEntry> for EncryptedEntry: the nonce first, then the digest.
EncryptedEntry_try_from(value) ==
    LET nonce == try_b64_to_arr(NonceLen, value.nonce)
        digest == try_b64_to_vec(value.digest)
        entry == [date |-> value.date, nonce |-> nonce.val, digest |-> digest.val]
    IN  IF ~nonce.ok THEN [ok |-> FALSE, val |-> entry, err |-> nonce.err]
        ELSE IF ~digest.ok THEN [ok |-> FALSE, val |-> entry, err |-> digest.err]
        ELSE [ok |-> TRUE, val |-> entry, err |-> "none"]

\* impl TryFrom<StoredJournal> for EncryptedJournal: the salt first, then the
\* entries in the set's iteration order, stopping at the first that fails.
\* With several failing entries any of their errors can be the one returned.
EncryptedJournal_try_from(value) ==
    LET kdf_salt == try_b64_to_arr(SaltLen, value.kdf_salt)
        conv == { EncryptedEntry_try_from(e) : e \in value.entries }
        journal == [password_hash |-> value.password_hash,
                    kdf_salt |-> kdf_salt.val,
                    entries |-> { c.val : c \in { x \in conv : x.ok } }]
    IN  IF ~kdf_salt.ok THEN { [ok |-> FALSE, val |-> journal, err |-> kdf_salt.err] }
        ELSE IF \E c \in conv : ~c.ok
        THEN { [ok |-> FALSE, val |-> journal, err |-> c.err] : c \in { x \in conv : ~x.ok } }
        ELSE { [ok |-> TRUE, val |-> journal, err |-> "none"] }

(***************************************************************************)
(* The journal file.  A file is missing, holds bytes that are not UTF-8,  *)
(* holds text that is not a JSON document of StoredJournal's shape, or     *)
(* holds such a document: its three fields, every entry's date as the text *)
(* Date's Serialize impl writes and its Deserialize impl reads.            *)
(***************************************************************************)

EmptyDoc == [password_hash |-> <<>>, kdf_salt |-> <<>>, entries |-> {}]

NoFile == [kind |-> "missing", doc |-> EmptyDoc]
NotUtf8File == [kind |-> "not_utf8", doc |-> EmptyDoc]
NotJsonFile == [kind |-> "not_json", doc |-> EmptyDoc]
DocFile(doc) == [kind |-> "doc", doc |-> doc]

\* serde_json::to_string(&StoredJournal): Date serializes as its Display text.
serde_json_to_string(stored) ==
    [password_hash |-> stored.password_hash,
     kdf_salt |-> stored.kdf_salt,
     entries |-> { [date |-> Date_to_string(e.date), nonce |-> e.nonce, digest |-> e.digest] :
                     e \in stored.entries }]

\* serde_json::from_str::<StoredJournal>: Date deserializes with from_str, and
\* one date that does not parse fails the whole document.
serde_json_from_str(doc) ==
    IF \E e \in doc.entries : ~Date_from_str(e.date).ok
    THEN [ok |-> FALSE, val |-> EmptyDoc]
    ELSE [ok |-> TRUE,
          val |-> [password_hash |-> doc.password_hash,
                   kdf_salt |-> doc.kdf_salt,
                   entries |-> { [date |-> Date_from_str(e.date).date,
                                  nonce |-> e.nonce, digest |-> e.digest] :
                                   e \in doc.entries }]]

(***************************************************************************)
(* State's methods (src/db.rs)                                             *)
(***************************************************************************)

\* State::get_entry: Some(text) or None.
get_entry(self, date) ==
    IF date \in DOMAIN self.entries
    THEN [some |-> TRUE, val |-> self.entries[date]]
    ELSE [some |-> FALSE, val |-> <<>>]

\* Mutant: an entry that exists is kept.
set_entry_if_absent(self, date, content) ==
    [self EXCEPT !.entries =
        [d \in DOMAIN self.entries \cup {date} |->
            IF d \in DOMAIN self.entries THEN self.entries[d] ELSE content]]

\* State::set_entry: HashMap::insert.
set_entry(self, date, content) ==
    [self EXCEPT !.entries =
        [d \in DOMAIN self.entries \cup {date} |->
            IF d = date THEN content ELSE self.entries[d]]]

\* State::get_today and State::set_today: get_entry and set_entry for the
\* date Date::today() gives when they are called; current_date is the clock's
\* reading of that call.
get_today(self, current_date) == get_entry(self, Date_today(current_date))

set_today(self, content, current_date) == set_entry(self, Date_today(current_date), content)

\* State::change_password
change_password(self, new_password) == [self EXCEPT !.password = new_password]

\* LoadError::FromBase64Error(e)
FromBase64Error(e) ==
    IF e = "InvalidLength" THEN "FromBase64Error(InvalidLength)"
    ELSE "FromBase64Error(NotValidBase64)"

\* Mutant: opens the file for writing, which truncates it.
fs_read_truncating(file, readable) ==
    [ok |-> file.kind # "missing" /\ readable,
     file |-> IF file.kind = "missing" THEN file ELSE NotJsonFile]

\* fs::read(file_name): Err for a missing file and for any other I/O error
\* (readable is whether a file that exists can be read by the process: its
\* permissions can forbid it); the file is left as it is.
fs_read(file, readable) == [ok |-> file.kind # "missing" /\ readable, file |-> file]

\* Mutant: the loaded entries are inserted into the existing map.
State_assign_merging(self, loaded) ==
    [password |-> loaded.password,
     entries |-> [d \in DOMAIN self.entries \cup DOMAIN loaded.entries |->
                    IF d \in DOMAIN loaded.entries THEN loaded.entries[d]
                    ELSE self.entries[d]]]

\* *self = state.unwrap(): the State is replaced as a whole.
State_assign(self, loaded) == loaded

Outcome(tag, err, st, f, calls) ==
    [tag |-> tag, err |-> err, state |-> st, file |-> f, calls |-> calls]

\* State::load: the outcomes of a call, each with the State and the file it
\* leaves.  "Panic" is an unwrap() on an Err: the process aborts inside the call.
\* readable is whether fs::read can read a file that exists.
load(self, file, password, readable) ==
    LET json == fs_read(file, readable)
        after == json.file
    IN  IF ~json.ok THEN { Outcome("Err", "NotAccessible", self, after, <<>>) }
        ELSE IF file.kind = "not_utf8" THEN { Outcome("Panic", "none", self, after, <<>>) }
        ELSE IF file.kind = "not_json"
        THEN { Outcome("Err", "ParseError", self, after, <<>>) }
        ELSE LET stored_journal == serde_json_from_str(file.doc)
             IN  IF ~stored_journal.ok
                 THEN { Outcome("Err", "ParseError", self, after, <<>>) }
                 ELSE UNION {
                        IF ~encrypted_journal.ok
                        THEN { Outcome("Err", FromBase64Error(encrypted_journal.err),
                                       self, after, <<>>) }
                        ELSE { IF st.tag = "Ok"
                               THEN Outcome("Ok", "none", State_assign(self, st.state),
                                            after, st.calls)
                               ELSE Outcome(st.tag, st.err, self, after, st.calls) :
                                 st \in decrypt_journal(encrypted_journal.val, password) } :
                        encrypted_journal \in EncryptedJournal_try_from(stored_journal.val) }

\* Mutant: the entries already in the file are kept beside the new ones.
save_keeping(self, file, bsalt, ksalt, nonceOf, writable) ==
    LET encrypted_journal == encrypt_journal(self, bsalt, ksalt, nonceOf)
        saved_journal == StoredJournal_from(encrypted_journal)
        json == serde_json_to_string(saved_journal)
    IN  IF writable = "written"
        THEN [tag |-> "Ok", err |-> "none",
              file |-> DocFile([json EXCEPT !.entries = @ \cup file.doc.entries])]
        ELSE [tag |-> "Err", err |-> "FileError",
              file |-> IF writable = "refused" THEN file ELSE NotJsonFile]

\* State::save: what the call returns and the file it leaves.  writable is
\* what fs::write does: it opens the file with truncation (creating it when
\* there is none) and then writes the text.  "written": both steps succeed.
\* "refused": the open fails and the path is left as it was.  "cut": the open
\* succeeds and the write fails, which leaves a file that holds no complete
\* JSON text (it is empty when nothing was written).  "split": as "cut", with
\* the text ending inside a multi-byte character; the text Secure writes (a
\* bcrypt hash, base64 and dates of digits and '-') is ASCII, so what is left
\* of it is UTF-8 wherever the write stops.
save(self, file, bsalt, ksalt, nonceOf, writable) ==
    LET encrypted_journal == encrypt_journal(self, bsalt, ksalt, nonceOf)
        saved_journal == StoredJournal_from(encrypted_journal)
        json == serde_json_to_string(saved_journal)
    IN  IF writable = "written"
        THEN [tag |-> "Ok", err |-> "none", file |-> DocFile(json)]
        ELSE [tag |-> "Err", err |-> "FileError",
              file |-> IF writable = "refused" THEN file ELSE NotJsonFile]

\* State::load::<ZeroSecurity>
ZeroSecurity_load(self, file, password, readable) ==
    LET json == fs_read(file, readable)
        after == json.file
    IN  IF ~json.ok THEN { Outcome("Err", "NotAccessible", self, after, <<>>) }
        ELSE IF file.kind = "not_utf8" THEN { Outcome("Panic", "none", self, after, <<>>) }
        ELSE IF file.kind = "not_json"
        THEN { Outcome("Err", "ParseError", self, after, <<>>) }
        ELSE LET stored_journal == serde_json_from_str(file.doc)
             IN  IF ~stored_journal.ok
                 THEN { Outcome("Err", "ParseError", self, after, <<>>) }
                 ELSE UNION {
                        IF ~encrypted_journal.ok
                        THEN { Outcome("Err", FromBase64Error(encrypted_journal.err),
                                       self, after, <<>>) }
                        ELSE { IF st.tag = "Ok"
                               THEN Outcome("Ok", "none", State_assign(self, st.state),
                                            after, st.calls)
                               ELSE Outcome(st.tag, st.err, self, after, st.calls) :
                                 st \in ZeroSecurity_decrypt_journal(encrypted_journal.val,
                                                                     password) } :
                        encrypted_journal \in EncryptedJournal_try_from(stored_journal.val) }

\* State::save::<ZeroSecurity>.  The text holds the password as it is (the
\* other fields are base64 and dates), so a write that stops inside one of
\* its multi-byte characters ("split") leaves bytes that are not UTF-8.
ZeroSecurity_save(self, file, writable) ==
    LET encrypted_journal == ZeroSecurity_encrypt_journal(self)
        saved_journal == StoredJournal_from(encrypted_journal)
        json == serde_json_to_string(saved_journal)
        multibyte == \E k \in 1..Len(json.password_hash) : json.password_hash[k] > 127
    IN  IF writable = "written"
        THEN [tag |-> "Ok", err |-> "none", file |-> DocFile(json)]
        ELSE [tag |-> "Err", err |-> "FileError",
              file |-> IF writable = "refused" THEN file
                       ELSE IF writable = "split" /\ multibyte THEN NotUtf8File
                       ELSE NotJsonFile]

(***************************************************************************)
(* The values the model runs on                                            *)
(***************************************************************************)

\* The empty password a new State starts with, and two passwords of 73 bytes
\* that differ in the last byte only.
PwEmpty == <<>>
PwLongA == [i \in 1..BcryptMaxLen |-> 112] \o <<49>>
Passwords == {PwEmpty, PwLongA, [i \in 1..BcryptMaxLen |-> 112] \o <<50>>}

\* 2024-01-01 and a date before the common era.
DateNewYear == MkDate(2024, 1, 1)
DateIdes == MkDate(-44, 3, 15)
Dates == {DateNewYear, DateIdes}

\* "hello", and a text with a three-byte character.
TextHello == <<104, 101, 108, 108, 111>>
TextEuro == <<53, 226, 130, 172>>  \* "5" U+20AC
Texts == {TextHello, TextEuro}

\* The (date, content) pairs set_entry is called with.
EntryInputs == {<<DateNewYear, TextHello>>, <<DateNewYear, TextEuro>>, <<DateIdes, TextHello>>}

\* What the random sources can return: NumNonces nonces for
\* encrypt_journal_entry, one salt each for make_kdf_salt and bcrypt.
NumNonces == 2
Nonces == { SeqOf([i \in 1..NonceLen |-> (k * 41 + i * 3) % 256]) : k \in 1..NumNonces }
KdfSalts == { SeqOf([i \in 1..SaltLen |-> (29 + i * 5) % 256]) }
BcryptSalts == { SeqOf([i \in 1..BcryptSaltChars |-> BcryptChar((7 + i * 3) % 64)]) }

\* The journals encrypt_journal can return for a State, over what the random
\* sources can return.
Encryptions(journal) ==
    { encrypt_journal(journal, bsalt, ksalt, nonceOf) :
        bsalt \in BcryptSalts, ksalt \in KdfSalts,
        nonceOf \in [DOMAIN journal.entries -> Nonces] }

\* What an outside hand can leave at the path in place of a document doc:
\* one field of the document, or of one entry, replaced.
BadBase64 == <<33, 33, 33, 33>>
NotAHash == <<110, 111, 112, 101>>
\* The base64 text of the bytes of text, one byte shorter or with the last changed.
Shortened(text) ==
    LET bytes == Base64Decode(text).bytes
    IN  Base64Encode(IF bytes = <<>> THEN bytes ELSE SubSeq(bytes, 1, Len(bytes) - 1))
Altered(text) ==
    LET bytes == Base64Decode(text).bytes
    IN  Base64Encode(IF bytes = <<>> THEN <<1>>
                     ELSE [bytes EXCEPT ![Len(bytes)] = (bytes[Len(bytes)] + 1) % 256])
ReplaceEntry(doc, e, x) == [doc EXCEPT !.entries = (doc.entries \ {e}) \cup {x}]

CorruptDocs(doc) ==
    {[doc EXCEPT !.password_hash = NotAHash],
     [doc EXCEPT !.kdf_salt = BadBase64],
     [doc EXCEPT !.kdf_salt = Shortened(doc.kdf_salt)]}
    \cup UNION { {ReplaceEntry(doc, e, [e EXCEPT !.date = \* the text 2024-13-45
                                   <<50, 48, 50, 52, 45, 49, 51, 45, 52, 53>>]),
                  ReplaceEntry(doc, e, [e EXCEPT !.nonce = BadBase64]),
                  ReplaceEntry(doc, e, [e EXCEPT !.nonce = Shortened(e.nonce)]),
                  ReplaceEntry(doc, e, [e EXCEPT !.nonce = Altered(e.nonce)]),
                  ReplaceEntry(doc, e, [e EXCEPT !.digest = BadBase64]),
                  ReplaceEntry(doc, e, [e EXCEPT !.digest = Altered(e.digest)]),
                  ReplaceEntry(doc, e, [e EXCEPT !.digest = <<>>])} : e \in doc.entries }

CorruptFiles(f) ==
    {NoFile, NotUtf8File, NotJsonFile}
    \cup (IF f.kind = "doc" THEN { DocFile(d) : d \in CorruptDocs(f.doc) } ELSE {})

(***************************************************************************)
(* The state machine: one State object of one process, the journal file,   *)
(* and what the last operation was and returned.                           *)
(***************************************************************************)

VARIABLES
    state,      \* the State: [password, entries]
    file,       \* the content at the journal's path
    op,         \* the last operation
    res,        \* what it returned: "Ok", an error, or "Panic" (the process aborted)
    calls,      \* the Encryptor primitives it called, in order
    corrupted,  \* the file was changed from outside since it was last written
    arg,        \* the argument of a conversion or parsing call
    out,        \* the value such a call returned
    pc,         \* where main is: in ui::init, in ui::app, saving, or ended
    pass,       \* ui::init's pass: the password entered last
    ret,        \* ui::app's ret: what the iterations so far amount to
    start       \* the State ui::init handed to ui::app

vars == <<state, file, op, res, calls, corrupted, arg, out, pc, pass, ret, start>>

\* The variables of main's run and of single calls; the State's methods called
\* in any order leave them alone.
rest == <<arg, out, pc, pass, ret, start>>

\* main is not running.
NoRun ==
    /\ pc = "none"
    /\ pass = <<>>
    /\ ret = "none"
    /\ start = State_new

\* A State no method has been called on, and no journal file.
Fresh ==
    /\ state = State_new
    /\ file = NoFile
    /\ op = "new"
    /\ res = "Ok"
    /\ calls = <<>>
    /\ corrupted = FALSE

Init ==
    /\ state = State_new
    /\ file = NoFile
    /\ op = "new"
    /\ res = "Ok"
    /\ calls = <<>>
    /\ corrupted = FALSE
    /\ arg = <<>>
    /\ out = <<>>
    /\ NoRun

\* The process has not aborted.
Running == res # "Panic"

\* ui::init hands the State to the commands that edit it after a load
\* succeeded, or when no file exists.
Editable == ~corrupted \/ file.kind = "missing"

\* What fs::write to the path can do (see save): any file, present or not,
\* can refuse to open for writing, and any write can fail after the open, at
\* any byte of the text.  Where the write stops matters only to a text that
\* has multi-byte characters (see ZeroSecurity_save and SaveZero).
Writable(f) == {"written", "refused", "cut"}

SetEntry(date, content) ==
    /\ Running /\ Editable
    /\ state' = set_entry(state, date, content)
    /\ op' = "set_entry"
    /\ res' = "Ok"
    /\ calls' = <<>>
    /\ UNCHANGED <<file, corrupted>>
    /\ UNCHANGED rest

ChangePassword(new_password) ==
    /\ Running /\ Editable
    /\ state' = change_password(state, new_password)
    /\ op' = "change_password"
    /\ res' = "Ok"
    /\ calls' = <<>>
    /\ UNCHANGED <<file, corrupted>>
    /\ UNCHANGED rest

\* Mutant: a write that fails leaves an empty State in memory.
SaveDropping ==
    /\ Running
    /\ \E bsalt \in BcryptSalts, ksalt \in KdfSalts,
          nonceOf \in [DOMAIN state.entries -> Nonces], writable \in Writable(file) :
            LET r == save(state, file, bsalt, ksalt, nonceOf, writable)
            IN  /\ file' = r.file
                /\ res' = (IF r.tag = "Ok" THEN "Ok" ELSE r.err)
                /\ corrupted' = (IF r.tag = "Ok" THEN FALSE ELSE corrupted)
                /\ state' = (IF r.tag = "Ok" THEN state ELSE State_new)
    /\ op' = "save"
    /\ calls' = encrypt_journal_calls(state)
    /\ UNCHANGED rest

Save ==
    /\ Running
    /\ \E bsalt \in BcryptSalts, ksalt \in KdfSalts,
          nonceOf \in [DOMAIN state.entries -> Nonces], writable \in Writable(file) :
            LET r == save(state, file, bsalt, ksalt, nonceOf, writable)
            IN  /\ file' = r.file
                /\ res' = (IF r.tag = "Ok" THEN "Ok" ELSE r.err)
                /\ corrupted' = (IF r.tag = "Ok" THEN FALSE ELSE corrupted)
    /\ op' = "save"
    /\ calls' = encrypt_journal_calls(state)
    /\ UNCHANGED state
    /\ UNCHANGED rest

Load(password, readable) ==
    /\ Running
    /\ \E o \in load(state, file, password, readable) :
        /\ state' = o.state
        /\ file' = o.file
        /\ res' = (IF o.tag = "Err" THEN o.err ELSE o.tag)
        /\ calls' = o.calls
    /\ op' = "load"
    /\ UNCHANGED corrupted
    /\ UNCHANGED rest

\* The file is replaced from outside while no process runs on it (the store
\* assumes exclusive ownership of the file for the duration of a run).
Corrupt ==
    /\ op = "new"
    /\ ~corrupted
    /\ \E f \in CorruptFiles(file) : file' = f
    /\ corrupted' = TRUE
    /\ UNCHANGED <<state, op, res, calls>>
    /\ UNCHANGED rest

\* The process ends (or has aborted) and a new one starts: ui::init begins
\* from State::new().
Restart ==
    /\ state' = State_new
    /\ op' = "new"
    /\ res' = "Ok"
    /\ calls' = <<>>
    /\ UNCHANGED <<file, corrupted>>
    /\ UNCHANGED rest

Next ==
    \/ \E e \in EntryInputs : SetEntry(e[1], e[2])
    \/ \E p \in Passwords : ChangePassword(p)
    \/ Save
    \/ \E p \in Passwords, readable \in BOOLEAN : Load(p, readable)
    \/ Corrupt
    \/ Restart

Spec == Init /\ [][Next]_vars

(***************************************************************************)
(* Properties                                                              *)
(***************************************************************************)

AllPasswords == Passwords \cup {State_new.password}

LoadAny == \E p \in Passwords, readable \in BOOLEAN : Load(p, readable)

\* C1: decrypting what encrypt_journal returned for a State, with the State's
\* password, succeeds and returns that State: the same password and the same
\* text for the same dates.
EncryptDecryptInverse ==
    (op = "save" /\ res = "Ok") =>
        \A j \in Encryptions(state) :
            \A o \in decrypt_journal(j, state.password) :
                o.tag = "Ok" /\ o.state = state

\* A State with two entries and a long password has been encrypted.
EncryptDecryptInverseWitness ==
    /\ op = "save" /\ res = "Ok"
    /\ state.password = PwLongA
    /\ DOMAIN state.entries = Dates

\* An EncryptedJournal with the entries of two encryptions of the State: a date
\* can be in it twice, under different nonces.
JournalsOf(journal) ==
    { [j EXCEPT !.entries = j.entries \cup k.entries] :
        j \in Encryptions(journal), k \in Encryptions(journal) }

\* C2: an EncryptedJournal converted to a StoredJournal and back with try_from
\* is the same journal: hash, salt bytes, and every entry with its date, nonce
\* bytes and digest bytes.
StoredRoundTrip ==
    (op = "save" /\ res = "Ok") =>
        \A j \in JournalsOf(state) :
            EncryptedJournal_try_from(StoredJournal_from(j))
                = { [ok |-> TRUE, val |-> j, err |-> "none"] }

\* A journal of two entries has been converted and written.
StoredRoundTripWitness ==
    /\ op = "save" /\ res = "Ok"
    /\ Cardinality(file.doc.entries) = 2

\* C3: decrypting an encrypted journal with any password other than the one it
\* was encrypted under returns IncorrectPassword.
WrongPasswordRejected ==
    op = "save" =>
        \A j \in Encryptions(state) :
            \A p \in AllPasswords \ {state.password} :
                \A o \in decrypt_journal(j, p) :
                    o.tag = "Err" /\ o.err = "IncorrectPassword"

\* What decrypting the entries of the file under password p gives, as
\* (date, text) pairs; read from the file's fields with the decoders.
DecryptedPairs(f, p) ==
    LET key == gen_key(p, Base64Decode(f.doc.kdf_salt).bytes)
    IN  { [date |-> Date_from_str(e.date).date,
           text |-> aes_decrypt(key, Base64Decode(e.nonce).bytes,
                                Base64Decode(e.digest).bytes).text] :
            e \in f.doc.entries }

\* C4: a load that returns Ok leaves exactly the journal decrypted from the
\* file under the supplied password, and a load that does not return Ok leaves
\* the State as it was.
LoadAllOrNothing ==
    [][op' = "load" =>
        \/ /\ res' # "Ok"
           /\ state' = state
        \/ \A p \in Passwords, readable \in BOOLEAN :
              Load(p, readable) =>
                /\ res' = "Ok"
                /\ state'.password = p
                /\ DOMAIN state'.entries = { x.date : x \in DecryptedPairs(file, p) }
                /\ \A d \in DOMAIN state'.entries :
                     [date |-> d, text |-> state'.entries[d]] \in DecryptedPairs(file, p)]_vars

\* A load has replaced the State by a journal with an entry.
LoadAllOrNothingWitness ==
    /\ op = "load" /\ res = "Ok"
    /\ DOMAIN state.entries # {}

\* C5: load returns Ok or a LoadError, it never aborts the process.
LoadNeverAborts == op = "load" => res # "Panic"

ParsesAsStored(f) == f.kind = "doc" /\ serde_json_from_str(f.doc).ok

Converts(f) ==
    /\ ParsesAsStored(f)
    /\ \A c \in EncryptedJournal_try_from(serde_json_from_str(f.doc).val) : c.ok

\* C6: load reports the first failing step of read, parse, convert, decrypt:
\* NotAccessible for a file that is missing or cannot be read, ParseError for
\* a file that was read and is no stored document, FromBase64Error for a
\* document with a badly encoded field, and IncorrectPassword only after all
\* three steps succeeded.
LoadErrorOrder ==
    [][\A p \in Passwords, readable \in BOOLEAN :
        (op' = "load" /\ Load(p, readable)) =>
            /\ (file.kind = "missing" \/ ~readable) => res' = "NotAccessible"
            /\ (file.kind # "missing" /\ readable /\ ~ParsesAsStored(file))
                    => res' = "ParseError"
            /\ (readable /\ ParsesAsStored(file) /\ ~Converts(file)) =>
                    res' \in {"FromBase64Error(NotValidBase64)",
                              "FromBase64Error(InvalidLength)"}
            /\ res' = "IncorrectPassword" =>
                    /\ readable /\ Converts(file)
                    /\ LET v == BcryptVerify(p, file.doc.password_hash)
                       IN  v.ok /\ ~v.val]_vars

\* C8: a saved State loads back under its password with the same entries, and
\* loads with any other password are rejected with IncorrectPassword.
SaveThenLoad ==
    (op = "save" /\ res = "Ok") =>
        /\ \A o \in load(State_new, file, state.password, TRUE) :
              o.tag = "Ok" /\ o.state.entries = state.entries
        /\ \A p \in AllPasswords \ {state.password} :
              \A o \in load(State_new, file, p, TRUE) :
                  o.tag = "Err" /\ o.err = "IncorrectPassword"

\* C9: load leaves the file as it is, whatever it returns.
LoadKeepsFile == [][op' = "load" => (file' = file \/ ~LoadAny)]_vars

\* A load of a file that is no valid document has failed.
LoadKeepsFileWitness ==
    /\ op = "load"
    /\ res = "ParseError"
    /\ file.kind \in {"not_json", "doc"}

\* C10: in decrypt_journal the password is verified first and once, and when
\* verification fails no key is derived and no entry is decrypted.
VerifyBeforeDecrypt ==
    (op = "load" /\ calls # <<>>) =>
        /\ calls[1] = "verify_password"
        /\ \A i \in 2..Len(calls) : calls[i] # "verify_password"
        /\ res = "IncorrectPassword" => calls = <<"verify_password">>

\* A wrong password was rejected on a journal that has entries.
VerifyBeforeDecryptWitness ==
    /\ op = "load" /\ res = "IncorrectPassword"
    /\ calls = <<"verify_password">>
    /\ file.kind = "doc" /\ file.doc.entries # {}


\* The entries of a stored document written for a date.
EntriesFor(doc, d) == { e \in doc.entries : e.date = Date_to_string(d) }

\* C12: the journal save encrypts and writes has exactly one entry for each
\* date of the State and none for any other date, whatever was edited, loaded
\* or saved before.
OneEntryPerDate ==
    (op = "save" /\ res = "Ok") =>
        /\ \A d \in DOMAIN state.entries : Cardinality(EntriesFor(file.doc, d)) = 1
        /\ \A e \in file.doc.entries : \E d \in DOMAIN state.entries : e \in EntriesFor(file.doc, d)
        /\ \A j \in Encryptions(state) :
              /\ \A d \in DOMAIN state.entries :
                    Cardinality({ e \in j.entries : e.date = d }) = 1
              /\ \A e \in j.entries : e.date \in DOMAIN state.entries

\* An edited entry and another one have been saved.
OneEntryPerDateWitness ==
    /\ op = "save" /\ res = "Ok"
    /\ DOMAIN state.entries = Dates
    /\ state.entries[DateNewYear] = TextEuro
    /\ Cardinality(file.doc.entries) = 2

\* Every load of the file with the password succeeds, or every one is
\* rejected as IncorrectPassword.
LoadsWith(f, p) == \A o \in load(State_new, f, p, TRUE) : o.tag = "Ok"
Rejects(f, p) == \A o \in load(State_new, f, p, TRUE) : o.tag = "Err" /\ o.err = "IncorrectPassword"

\* C13: change_password leaves the entries and the file alone; a file that
\* loaded with the old password still does and rejects the new one; after the
\* next successful save the file loads with the new password to the same
\* entries and rejects every other password.
PasswordChangeOnSave ==
    [][/\ \A p \in Passwords :
            (op' = "change_password" /\ ChangePassword(p)) =>
                /\ state'.entries = state.entries
                /\ file' = file
                /\ (p # state.password /\ LoadsWith(file, state.password)) =>
                        (LoadsWith(file', state.password) /\ Rejects(file', p))
       /\ (op' = "save" /\ res' = "Ok") =>
            /\ \A o \in load(State_new, file', state'.password, TRUE) :
                    o.tag = "Ok" /\ o.state.entries = state'.entries
            /\ \A q \in AllPasswords \ {state'.password} : Rejects(file', q)
      ]_vars

(***************************************************************************)
(* The State's methods with the ZeroSecurity encryptor                     *)
(***************************************************************************)

SaveZero ==
    /\ Running
    /\ \E writable \in Writable(file) \cup {"split"} :
        LET r == ZeroSecurity_save(state, file, writable)
        IN  /\ file' = r.file
            /\ res' = (IF r.tag = "Ok" THEN "Ok" ELSE r.err)
    /\ op' = "save_zero"
    /\ calls' = encrypt_journal_calls(state)
    /\ UNCHANGED <<state, corrupted>>
    /\ UNCHANGED rest

LoadZero(password) ==
    /\ Running
    /\ \E readable \in BOOLEAN : \E o \in ZeroSecurity_load(state, file, password, readable) :
        /\ state' = o.state
        /\ file' = o.file
        /\ res' = (IF o.tag = "Err" THEN o.err ELSE o.tag)
        /\ calls' = o.calls
    /\ op' = "load_zero"
    /\ UNCHANGED corrupted
    /\ UNCHANGED rest

\* The passwords of ZeroSpec include one of a single three-byte character
\* (U+20AC).
ZeroNext ==
    \/ \E e \in EntryInputs : SetEntry(e[1], e[2])
    \/ \E p \in Passwords \cup {<<226, 130, 172>>} : ChangePassword(p)
    \/ SaveZero
    \/ \E p \in Passwords \cup {<<226, 130, 172>>} : LoadZero(p)

ZeroSpec == Init /\ [][ZeroNext]_vars

\* The text contains the password, which is not empty.
Appears(password, text) ==
    /\ password # <<>>
    /\ \E i \in 1..Len(text) :
          /\ i + Len(password) - 1 <= Len(text)
          /\ SubSeq(text, i, i + Len(password) - 1) = password

\* C14: no field of a document save has written equals or contains the
\* State's password.
PasswordNotInFile ==
    (op \in {"save", "save_zero"} /\ res = "Ok") =>
        /\ ~Appears(state.password, file.doc.password_hash)
        /\ ~Appears(state.password, file.doc.kdf_salt)
        /\ \A e \in file.doc.entries :
              /\ ~Appears(state.password, e.date)
              /\ ~Appears(state.password, e.nonce)
              /\ ~Appears(state.password, e.digest)

\* C15: with ZeroSecurity, encrypt_journal gives the password as the hash, a
\* salt of 32 zero bytes and, for each entry, a nonce of 12 zero bytes and the
\* text's bytes as the digest; decrypt_journal of it with the same password
\* gives the State back.
ZeroSecurityIdentity ==
    (op = "save_zero" /\ res = "Ok") =>
        LET j == ZeroSecurity_encrypt_journal(state)
        IN  /\ j.password_hash = state.password
            /\ Len(j.kdf_salt) = 32 /\ \A i \in 1..32 : j.kdf_salt[i] = 0
            /\ \A d \in DOMAIN state.entries :
                  \E e \in j.entries :
                      /\ e.date = d /\ e.digest = state.entries[d]
                      /\ Len(e.nonce) = 12 /\ \A i \in 1..12 : e.nonce[i] = 0
            /\ Cardinality(j.entries) = Cardinality(DOMAIN state.entries)
            /\ \A o \in ZeroSecurity_decrypt_journal(j, state.password) :
                  o.tag = "Ok" /\ o.state = state
            /\ file.doc = serde_json_to_string(StoredJournal_from(j))

\* A State with two entries and a password has been saved with ZeroSecurity.
ZeroSecurityIdentityWitness ==
    /\ op = "save_zero" /\ res = "Ok"
    /\ state.password = PwLongA
    /\ DOMAIN state.entries = Dates

\* C19: save returns Ok, Err(FileError) or Err(SerializationError) and never
\* aborts; a write that fails gives Err(FileError) and leaves the path as it
\* was or with a file that is not a journal; whatever save returns, the
\* State's password and entries are as before the call.
SaveErrors ==
    [][op' = "save" =>
        /\ res' \in {"Ok", "FileError", "SerializationError"}
        /\ res' = "FileError" => file' \in {file, NotJsonFile}
        /\ res' = "Ok" => file'.kind = "doc"
        /\ state'.password = state.password
        /\ state'.entries = state.entries]_vars

\* A save of a State with a password and two entries has returned FileError
\* after fs::write had opened the file: the path holds a file that is not a
\* journal, and nobody but save has touched it.
SaveErrorsWitness ==
    /\ op = "save" /\ res = "FileError"
    /\ state.password = PwLongA
    /\ DOMAIN state.entries = Dates
    /\ file = NotJsonFile
    /\ ~corrupted

(***************************************************************************)
(* get_entry, set_entry and set_today on their own: arg is the log of the  *)
(* set_entry calls made so far (set_today is set_entry for the date of the *)
(* clock), out the last get_entry call and what it returned.               *)
(***************************************************************************)

\* How many calls the log holds in full: once it is that long, it keeps of
\* the calls made so far the last one for each date.
MaxSets == 3

\* The dates get_entry is called with.
QueryDates == Dates \cup { Date_today(current_date) : current_date \in Clock }

\* The log after set_entry(date, content) has been called.
Logged(log, date, content) ==
    LET RECURSIVE Latest(_)
        Latest(k) ==
            IF k > Len(log) THEN <<>>
            ELSE (IF \E j \in (k + 1)..Len(log) : log[j][1] = log[k][1]
                  THEN <<>> ELSE <<log[k]>>) \o Latest(k + 1)
    IN  Append(IF Len(log) < MaxSets THEN log ELSE Latest(1), <<date, content>>)

SetEntryCall(date, content) ==
    /\ state' = set_entry(state, date, content)
    /\ arg' = Logged(arg, date, content)
    /\ op' = "set_entry"
    /\ res' = "Ok"
    /\ UNCHANGED <<file, calls, corrupted, out, pc, pass, ret, start>>

\* State::set_today: the date is the one the clock shows when it is called.
SetTodayCall(content) ==
    /\ \E current_date \in Clock :
        /\ state' = set_today(state, content, current_date)
        /\ arg' = Logged(arg, Date_today(current_date), content)
    /\ op' = "set_today"
    /\ res' = "Ok"
    /\ UNCHANGED <<file, calls, corrupted, out, pc, pass, ret, start>>

GetEntryCall(date) ==
    /\ out' = <<date, get_entry(state, date)>>
    /\ op' = "get_entry"
    /\ res' = "Ok"
    /\ UNCHANGED <<state, file, calls, corrupted, arg, pc, pass, ret, start>>

MapNext ==
    \/ \E e \in EntryInputs : SetEntryCall(e[1], e[2])
    \/ SetTodayCall(TextEuro)
    \/ \E d \in QueryDates : GetEntryCall(d)
    \/ \E p \in Passwords : ChangePassword(p)

MapSpec == Init /\ [][MapNext]_vars

\* The positions of the set_entry calls made for the date.
SetsOf(log, date) == { i \in 1..Len(log) : log[i][1] = date }

\* The content of the most recent set_entry call for the date.
LastSet(log, date) ==
    LET last == CHOOSE i \in SetsOf(log, date) : \A j \in SetsOf(log, date) : j <= i
    IN  log[last][2]

\* C16: get_entry(d) returns the content of the most recent set_entry for d,
\* or no value if d was never set; a set_entry(d, c) leaves what get_entry
\* returns for every other date, and the password, as they were.
GetSetEntry ==
    /\ [](op = "get_entry" =>
            LET d == out[1]
            IN  IF SetsOf(arg, d) = {}
                THEN ~out[2].some
                ELSE out[2].some /\ out[2].val = LastSet(arg, d))
    /\ [][op' \in {"set_entry", "set_today"} =>
            /\ state'.password = state.password
            /\ \A d \in QueryDates \ {arg'[Len(arg')][1]} :
                  get_entry(state', d) = get_entry(state, d)]_vars

\* get_entry has returned the second of two texts set for the same date, after
\* an entry for another date was set.
GetSetEntryWitness ==
    /\ op = "get_entry"
    /\ arg = <<<<DateNewYear, TextHello>>, <<DateNewYear, TextEuro>>, <<DateIdes, TextHello>>>>
    /\ out = <<DateNewYear, [some |-> TRUE, val |-> TextEuro]>>

(***************************************************************************)
(* Date::from_str on its own: arg is the text, out the result.             *)
(***************************************************************************)

\* The texts from_str is called with: every year, month and day field put
\* together, texts with fewer or more than three fields, and the relative forms.
DateTexts ==
    LET YearFields ==
            {<<50, 48, 50, 52>>,  \* "2024"
             <<50, 48, 50, 51>>,  \* "2023"
             <<97, 98, 99>>,  \* "abc"
             <<>>,  \* ""
             <<43, 50, 48, 50, 52>>,  \* "+2024"
             <<57, 57, 57, 57, 57, 57, 57, 57, 57, 57, 57>>,  \* "99999999999"
             <<51, 48, 48, 48, 48, 48>>,  \* "300000"
             <<48, 48, 48, 48>>}  \* "0000"
        MonthFields ==
            {<<48, 49>>,  \* "01"
             <<50>>,  \* "2"
             <<48, 50>>,  \* "02"
             <<49, 51>>,  \* "13"
             <<50, 53, 54>>,  \* "256"
             <<120, 120>>,  \* "xx"
             <<43, 51>>,  \* "+3"
             <<48>>,  \* "0"
             <<>>}  \* ""
        DayFields ==
            {<<48, 49>>,  \* "01"
             <<50, 57>>,  \* "29"
             <<51, 48>>,  \* "30"
             <<51, 49>>,  \* "31"
             <<51, 50>>,  \* "32"
             <<51, 48, 48>>,  \* "300"
             <<49, 120>>,  \* "1x"
             <<>>}  \* ""
        OtherTexts ==
            {<<>>,  \* ""
             <<32>>,  \* " "
             <<50, 48, 50, 52>>,  \* "2024"
             <<50, 48, 50, 52, 45, 48, 49>>,  \* "2024-01"
             <<50, 48, 50, 52, 45, 48, 49, 45, 48, 49, 45, 48, 49>>,  \* "2024-01-01-01"
             <<45, 52, 52, 45, 48, 51, 45, 49, 53>>,  \* "-44-03-15"
             <<32, 50, 48, 50, 52, 45, 48, 50, 45, 50, 57, 32>>,  \* " 2024-02-29 "
             <<50, 48, 50, 52, 45, 49, 45, 49, 10>>,  \* "2024-1-1\n"
             <<116, 111, 100, 97, 121>>,  \* "today"
             <<84, 79, 68, 65, 89>>,  \* "TODAY"
             <<32, 84, 111, 100, 97, 121, 32>>,  \* " Today "
             <<116, 111, 100, 97, 121, 45, 49>>,  \* "today-1"
             <<116, 111, 100, 97, 121, 32, 45, 32, 49>>,  \* "today - 1"
             <<116, 111, 100, 97, 121, 45>>,  \* "today-"
             <<116, 111, 100, 97, 121, 120>>,  \* "todayx"
             <<116, 111, 100, 97, 121, 43, 49>>,  \* "today+1"
             <<116, 111, 100, 97, 121, 45, 45, 49>>,  \* "today--1"
             <<116, 111, 100, 97, 121, 45, 49, 120>>,  \* "today-1x"
             <<116, 111, 100, 97, 121, 45, 48>>,  \* "today-0"
             <<116, 111, 100, 97, 121, 45, 54, 48>>,  \* "today-60"
             <<116, 111, 100, 97, 121, 45, 51, 54, 54>>,  \* "today-366"
             <<116, 111, 100, 97, 121, 45, 43, 53>>,  \* "today-+5"
             <<116, 111, 100, 97, 121, 32, 55>>,  \* "today 7"
             <<50, 48, 50, 52, 45, 48, 49, 45, 48, 49, 194, 133>>,  \* "2024-01-01" U+0085
             <<116, 111, 100, 97, 121, 194, 160>>,  \* "today" U+00A0
             <<84, 79, 68, 65, 89, 226, 128, 131, 45, 49>>,  \* "TODAY" U+2003 "-1"
             <<116, 111, 100, 97, 121, 45, 194, 160, 49>>,  \* "today-" U+00A0 "1"
             <<227, 128, 128, 50, 48, 50, 52, 45, 195, 137, 45, 48, 49>>,  \* U+3000 "2024-" U+00C9 "-01"
             <<116, 111, 100, 97, 121, 45, 57, 57, 57, 57, 57, 57, 57, 57, 57, 57, 57>>,  \* "today-99999999999"
             <<116, 111, 100, 97, 121, 45, 51, 48, 48, 48, 48, 48, 48, 48, 48>>,  \* "today-300000000"
             <<121, 101, 115, 116, 101, 114, 100, 97, 121>>,  \* "yesterday"
             <<116, 111, 100, 97, 121, 45, 50, 49, 52, 55, 52, 56, 51, 54, 52, 56>>,  \* "today-2147483648"
             <<116, 111, 100, 97, 121, 45, 57, 54, 53, 48, 48, 48, 48, 48>>,  \* "today-96500000"
             <<116, 111, 100, 97, 121, 45, 57, 54, 52, 56, 53, 48, 55, 53>>,  \* "today-96485075"
             <<116, 111, 100, 97, 121, 45, 57, 54, 52, 56, 53, 48, 55, 54>>,  \* "today-96485076"
             <<116, 111, 100, 97, 121, 45, 57, 54, 52, 56, 53, 48, 55, 55>>,  \* "today-96485077"
             <<116, 111, 100, 97, 121, 45, 49, 56, 52, 52, 54, 55, 52, 52, 48, 55, 51, 54, 49, 52, 53, 52, 53, 49, 54, 51>>,  \* "today-18446744073614545163"
             <<116, 111, 100, 97, 121, 45, 49, 56, 52, 52, 54, 55, 52, 52, 48, 55, 51, 54, 49, 52, 53, 52, 53, 49, 54, 52>>,  \* "today-18446744073614545164"
             <<116, 111, 100, 97, 121, 45, 49, 48, 54, 55, 53, 49, 57, 57, 49, 49, 54, 55>>,  \* "today-106751991167"
             <<116, 111, 100, 97, 121, 45, 49, 48, 54, 55, 53, 49, 57, 57, 49, 49, 54, 56>>,  \* "today-106751991168"
             <<116, 111, 100, 97, 121, 45, 57, 50, 50, 51, 51, 55, 50, 48, 51, 54, 56, 53, 52, 55, 55, 53, 56, 48, 55>>,  \* "today-9223372036854775807"
             <<116, 111, 100, 97, 121, 45, 57, 50, 50, 51, 51, 55, 50, 48, 51, 54, 56, 53, 52, 55, 55, 53, 56, 48, 56>>,  \* "today-9223372036854775808"
             <<116, 111, 100, 97, 121, 45, 49, 56, 52, 52, 54, 55, 52, 52, 48, 55, 51, 55, 48, 57, 53, 53, 49, 54, 49, 53>>,  \* "today-18446744073709551615"
             <<116, 111, 100, 97, 121, 45, 49, 56, 52, 52, 54, 55, 52, 52, 48, 55, 51, 55, 48, 57, 53, 53, 49, 54, 49, 54>>,  \* "today-18446744073709551616"
             <<116, 111, 100, 97, 121, 45, 49, 56, 52, 52, 54, 55, 52, 52, 48, 55, 51, 55, 48, 57, 53, 53, 49, 54, 49, 55>>,  \* "today-18446744073709551617"
             <<116, 111, 100, 97, 121, 45, 49, 56, 52, 52, 54, 55, 52, 52, 48, 55, 51, 55, 48, 57, 53, 53, 49, 50, 53, 48>>,  \* "today-18446744073709551250"
             <<116, 111, 100, 97, 121, 45, 49, 56, 52, 52, 54, 55, 52, 52, 48, 55, 51, 54, 49, 51, 48, 53, 49, 54, 49, 54>>,  \* "today-18446744073613051616"
             <<116, 111, 100, 97, 121, 45, 51, 52, 48, 50, 56, 50, 51, 54, 54, 57, 50, 48, 57, 51, 56, 52, 54, 51, 52, 54, 51, 51, 55, 52, 54, 48, 55, 52, 51, 49, 55, 54, 56, 50, 49, 49, 52, 53, 53>>,  \* "today-340282366920938463463374607431768211455"
             <<116, 111, 100, 97, 121, 45, 51, 52, 48, 50, 56, 50, 51, 54, 54, 57, 50, 48, 57, 51, 56, 52, 54, 51, 52, 54, 51, 51, 55, 52, 54, 48, 55, 52, 51, 49, 55, 54, 56, 50, 49, 49, 52, 53, 54>>,  \* "today-340282366920938463463374607431768211456"
             <<116, 111, 100, 97, 121, 45, 48, 48, 48, 48, 48, 48, 48, 48, 48, 48, 48, 48, 48, 48, 48, 48, 48, 48, 48, 48, 48, 48, 48, 48, 48, 48, 48, 48, 48, 48, 48, 48, 48, 48, 48, 48, 48, 48, 48, 48, 48, 48, 55>>,  \* "today-0000000000000000000000000000000000000000007"
             <<116, 111, 100, 97, 121, 45, 51, 54, 56, 57, 51, 52, 56, 56, 49, 52, 55, 52, 49, 57, 49, 48, 51, 50, 51, 50>>}  \* "today-36893488147419103232"
    IN  { y \o <<ChDash>> \o m \o <<ChDash>> \o d :
            y \in YearFields, m \in MonthFields, d \in DayFields } \cup OtherTexts

DateInit == Fresh /\ arg \in DateTexts /\ out = <<>> /\ NoRun

FromStr ==
    /\ op = "new"
    /\ out' = Date_from_str(arg)
    /\ op' = "from_str"
    /\ res' = (IF Date_from_str(arg).ok THEN "Ok" ELSE Date_from_str(arg).err)
    /\ UNCHANGED <<state, file, calls, corrupted, arg, pc, pass, ret, start>>

DateNext == FromStr

DateSpec == DateInit /\ [][DateNext]_vars

\* The field is a non-negative integer: digits, with or without a '+' sign.
Numeric(field) ==
    LET body == IF field # <<>> /\ field[1] = ChPlus THEN Tail(field) ELSE field
    IN  body # <<>> /\ AllDigits(body)

\* The numeric field's value is v.
HasValue(field, v) ==
    LET body == IF field[1] = ChPlus THEN Tail(field) ELSE field
    IN  TrimZeros(body) = FmtNat(v)

\* The numeric year field's value modulo 400, from its last four digits.
YearMod400(field) ==
    LET body == IF field[1] = ChPlus THEN Tail(field) ELSE field
        last == IF Len(body) > 4 THEN SubSeq(body, Len(body) - 3, Len(body)) ELSE body
    IN  DecValue(last, 0, 9999) % 400

\* Three numeric fields that name a day of the calendar.
RealDate(y, m, d) ==
    \E mv \in 1..12, dv \in 1..31 :
        /\ HasValue(m, mv) /\ HasValue(d, dv)
        /\ dv <= DaysInMonth(YearMod400(y), mv)

\* What follows "today" is '-' and a non-negative integer.
MinusInteger(text) == text[1] = ChDash /\ Numeric(Trim(Tail(text)))

\* C17: a text starting with "today" whose remainder is not empty and not '-'
\* with a non-negative integer gives InvalidTodayMinusFormat; three fields of
\* which one is not numeric give IsNotNumeric; three numeric fields that are
\* not a calendar date give InvalidDate; Ok comes with a calendar date only.
DateErrorKinds ==
    op = "from_str" =>
        LET s == ToLowercase(Trim(arg))
            after == Trim(SubSeq(s, 6, Len(s)))
            items == Split(s, ChDash)
        IN  /\ (StartsWith(s, TextToday) /\ after # <<>> /\ ~MinusInteger(after))
                  => res = "InvalidTodayMinusFormat"
            /\ (~StartsWith(s, TextToday) /\ Len(items) = 3
                  /\ \E k \in 1..3 : ~Numeric(items[k]))
                  => res = "IsNotNumeric"
            /\ (~StartsWith(s, TextToday) /\ Len(items) = 3
                  /\ (\A k \in 1..3 : Numeric(items[k]))
                  /\ ~RealDate(items[1], items[2], items[3]))
                  => res = "InvalidDate"
            /\ res = "Ok" =>
                  /\ out.date.month \in 1..12
                  /\ out.date.day \in 1..DaysInMonth(out.date.year, out.date.month)

(***************************************************************************)
(* One run of the program (src/main.rs, src/ui.rs): main's checks, init,   *)
(* app, save.  arg is the configuration with the subcommand of the command *)
(* line, pc the place the run is at, pass the password last entered, start *)
(* the State app was called with, ret what app has to return, out the exit *)
(* code once the process has exited.  A prompt's answer is an input, and   *)
(* so is each reading of the clock, which nothing ties to the one before.  *)
(* A path given as an option stands for what std::fs::read_to_string gives *)
(* for it: [ok |-> FALSE] or the text of the file.                         *)
(***************************************************************************)

None == <<>>
Some(v) == <<v>>

\* SubCommand::try_from(PathWay): the options are the defaults; Quit is an Err.
PathWays ==
    {[cmd |-> "ChangePassword", new_password |-> None, new_password_file |-> None],
     [cmd |-> "List"],
     [cmd |-> "View", date |-> None],
     [cmd |-> "Edit", date |-> None, content |-> None, content_path |-> None],
     [cmd |-> "ViewToday"],
     [cmd |-> "EditToday", content |-> None, content_path |-> None],
     [cmd |-> "Quit"]}

\* The subcommands given on the command line.
SubCommands ==
    LET unreadable == [ok |-> FALSE, text |-> <<>>]
        hello == [ok |-> TRUE, text |-> TextHello]
        secret == [ok |-> TRUE, text |-> <<112, 49, 10>>]
    IN  {[cmd |-> "ChangePassword", new_password |-> Some(PwLongA), new_password_file |-> None],
         [cmd |-> "ChangePassword", new_password |-> None, new_password_file |-> Some(secret)],
         [cmd |-> "ChangePassword", new_password |-> None,
          new_password_file |-> Some(unreadable)],
         [cmd |-> "ChangePassword", new_password |-> Some(PwLongA),
          new_password_file |-> Some(secret)],
         [cmd |-> "List"],
         [cmd |-> "View", date |-> None],
         [cmd |-> "View", date |-> Some(DateNewYear)],
         [cmd |-> "Edit", date |-> Some(DateNewYear), content |-> Some(TextHello),
          content_path |-> None],
         [cmd |-> "Edit", date |-> Some(DateIdes), content |-> None,
          content_path |-> Some(hello)],
         [cmd |-> "Edit", date |-> Some(DateNewYear), content |-> Some(TextHello),
          content_path |-> Some(hello)],
         [cmd |-> "Edit", date |-> None, content |-> None, content_path |-> None],
         [cmd |-> "ViewToday"],
         [cmd |-> "EditToday", content |-> Some(TextEuro), content_path |-> None],
         [cmd |-> "EditToday", content |-> None, content_path |-> Some(unreadable)],
         [cmd |-> "EditToday", content |-> Some(TextEuro), content_path |-> Some(hello)]}

\* Arguments and Config as main has them: every subcommand with each way of
\* looping and the password asked for; the ways of giving the password with
\* one subcommand; the settings main refuses; and the places the path of the
\* journal can come from.  file_path is the -f of the command line,
\* JRN_JOURNAL the variable of the environment, default_config what
\* get_default_config returned: Config::default(), which has a file_path, or
\* the configuration file read, which has one only when it sets it.
Configs ==
    LET jrn_json == <<46, 47, 106, 114, 110, 46, 106, 115, 111, 110>>
        Config(do_loop, dont_loop, password, password_file, subcommand) ==
            [dump_default_config |-> FALSE, do_loop |-> do_loop, dont_loop |-> dont_loop,
             password |-> password, password_file |-> password_file,
             subcommand |-> subcommand,
             file_path |-> None, JRN_JOURNAL |-> None,
             default_config |-> [file_path |-> Some(jrn_json)]]
        list == Some([cmd |-> "List"])
        path == Some([ok |-> TRUE, text |-> <<32>> \o PwLongA \o <<10>>])
    IN  { Config(l[1], l[2], None, None, c) :
            l \in {<<FALSE, FALSE>>, <<TRUE, FALSE>>, <<FALSE, TRUE>>},
            c \in {None} \cup { Some(x) : x \in SubCommands } }
        \cup { Config(FALSE, FALSE, p[1], p[2], list) :
                p \in {<<Some(PwLongA), None>>, <<None, path>>,
                       <<None, Some([ok |-> FALSE, text |-> <<>>])>>,
                       <<Some(PwLongA), path>>} }
        \cup { Config(TRUE, TRUE, None, None, list),
               [Config(FALSE, FALSE, None, None, None) EXCEPT !.dump_default_config = TRUE] }
        \cup { [Config(FALSE, FALSE, Some(PwLongA), None, c[1]) EXCEPT
                   !.dump_default_config = c[2], !.file_path = f[1], !.JRN_JOURNAL = f[2],
                   !.default_config = [file_path |-> None]] :
                 c \in {<<list, FALSE>>, <<None, TRUE>>},
                 f \in {<<None, None>>, <<Some(jrn_json), None>>, <<None, Some(jrn_json)>>} }

\* Config::get_config as far as the path of the journal goes (config.rs:143-146
\* and get_journal_path, config.rs:58-63): the -f of the command line, else
\* JRN_JOURNAL, else the file_path of default_config, whose expect panics when
\* there is none.
get_config(args) ==
    LET get_journal_path(default_config) ==
            IF args.JRN_JOURNAL # None
            THEN [panics |-> FALSE, file_path |-> args.JRN_JOURNAL]
            ELSE [panics |-> default_config.file_path = None,
                  file_path |-> default_config.file_path]
    IN  IF args.file_path # None THEN [panics |-> FALSE, file_path |-> args.file_path]
        ELSE get_journal_path(args.default_config)

\* main before init (main.rs:23-41): the exit code when it ends there, or None.
main_checks(config) ==
    IF config.dump_default_config THEN Some(0)
    ELSE IF config.dont_loop /\ config.do_loop THEN Some(1)
    ELSE IF config.password # None /\ config.password_file # None THEN Some(1)
    ELSE None

should_loop(config, subcommand) ==
    IF config.do_loop THEN TRUE
    ELSE IF config.dont_loop THEN FALSE
    ELSE IF subcommand # None THEN FALSE
    ELSE TRUE

\* What a command returns, or the exit of the process inside it.
AppResult(result, st) == [result |-> result, state |-> st, code |-> None]
Exit(code, st) == [result |-> "Exit", state |-> st, code |-> Some(code)]

\* get_dates: the dates of the entries, or today's date when there is none.
get_dates(st, current_date) ==
    IF DOMAIN st.entries = {} THEN {Date_today(current_date)} ELSE DOMAIN st.entries

\* A prompt that cannot be shown ends the process (fail!).
PromptFails(st) == { Exit(1, st) }

\* choose::<Date>: the list shows each date as text, and the text of the item
\* chosen is parsed back with from_str; ok is FALSE when the prompt cannot be
\* shown or the text does not parse (fail!).
choose(content) ==
    { [ok |-> value.ok, val |-> value.date] :
        value \in { Date_from_str(Date_to_string(x)) : x \in content } }
    \cup { [ok |-> FALSE, val |-> MkDate(0, 0, 0)] }

\* The clock is read by get_today (ui.rs:239) and again by set_today
\* (ui.rs:240).
edit_today(opts, st) ==
    IF opts.content # None /\ opts.content_path # None THEN { Exit(1, st) }
    ELSE IF opts.content_path # None /\ ~opts.content_path[1].ok THEN { Exit(1, st) }
    ELSE { LET old_content == get_today(st, t[1])
           IN  AppResult(IF old_content.some /\ old_content.val = content
                         THEN "DidntChangeState" ELSE "ChangedState",
                         set_today(st, content, t[2])) :
             content \in (IF opts.content # None THEN {opts.content[1]}
                          ELSE IF opts.content_path # None THEN {opts.content_path[1].text}
                          ELSE Texts),
             t \in Clock \X Clock }
         \cup (IF opts.content = None /\ opts.content_path = None
               THEN PromptFails(st) ELSE {})

view_today(st) == { AppResult("DidntChangeState", st) }

edit_entry(opts, st) ==
    UNION {
      IF ~date.ok THEN { Exit(1, st) }
      ELSE IF opts.content # None /\ opts.content_path # None THEN { Exit(1, st) }
      ELSE IF opts.content_path # None /\ ~opts.content_path[1].ok THEN { Exit(1, st) }
      ELSE { LET old_content == get_entry(st, date.val)
             IN  AppResult(IF old_content.some /\ old_content.val = new_content
                           THEN "DidntChangeState" ELSE "ChangedState",
                           set_entry(st, date.val, new_content)) :
               new_content \in (IF opts.content # None THEN {opts.content[1]}
                                ELSE IF opts.content_path # None
                                THEN {opts.content_path[1].text}
                                ELSE Texts) }
           \cup (IF opts.content = None /\ opts.content_path = None
                 THEN PromptFails(st) ELSE {}) :
        date \in (IF opts.date # None THEN { [ok |-> TRUE, val |-> opts.date[1]] }
                  ELSE UNION { choose(get_dates(st, t)) : t \in Clock }) }

\* ui::change_password
ui_change_password(opts, st) ==
    IF opts.new_password # None /\ opts.new_password_file # None THEN { Exit(1, st) }
    ELSE IF opts.new_password_file # None /\ ~opts.new_password_file[1].ok
    THEN { Exit(1, st) }
    ELSE { AppResult(IF st.password = new_password
                     THEN "DidntChangeState" ELSE "ChangedState",
                     change_password(st, new_password)) :
             new_password \in (IF opts.new_password # None THEN {opts.new_password[1]}
                               ELSE IF opts.new_password_file # None
                               THEN {opts.new_password_file[1].text}
                               ELSE Passwords) }
         \cup (IF opts.new_password = None /\ opts.new_password_file = None
               THEN PromptFails(st) ELSE {})

view_entries(opts, st) ==
    IF opts.date = None /\ DOMAIN st.entries = {} THEN { Exit(0, st) }
    ELSE { IF date.ok /\ get_entry(st, date.val).some
           THEN AppResult("DidntChangeState", st)
           ELSE Exit(1, st) :
             date \in (IF opts.date # None THEN { [ok |-> TRUE, val |-> opts.date[1]] }
                       ELSE choose(DOMAIN st.entries)) }

list_entries(st) == { AppResult("DidntChangeState", st) }

\* The command is the subcommand, or the choice made at the menu.
_app(subcommand, st) ==
    UNION { IF c.cmd = "Quit" THEN { AppResult("Quit", st) }
            ELSE IF c.cmd = "ChangePassword" THEN ui_change_password(c, st)
            ELSE IF c.cmd = "List" THEN list_entries(st)
            ELSE IF c.cmd = "View" THEN view_entries(c, st)
            ELSE IF c.cmd = "Edit" THEN edit_entry(c, st)
            ELSE IF c.cmd = "ViewToday" THEN view_today(st)
            ELSE edit_today(c, st) :
              c \in (IF subcommand = None THEN PathWays ELSE {subcommand[1]}) }
    \cup (IF subcommand = None THEN PromptFails(st) ELSE {})

\* app's loop: ret after an iteration that returned ar.
app_ret(ret_so_far, ar) == IF ar = "ChangedState" THEN "ChangedState" ELSE ret_so_far

\* The password init starts with (the match of ui.rs:67-80 and of 85-100):
\* pass is what it can be, fails whether the process can end there (a prompt
\* that cannot be shown, a password file that cannot be read, both options).
init_password(config) ==
    IF config.password # None /\ config.password_file # None
    THEN [pass |-> {}, fails |-> TRUE]
    ELSE IF config.password # None
    THEN [pass |-> {config.password[1]}, fails |-> FALSE]
    ELSE IF config.password_file # None
    THEN IF config.password_file[1].ok
         THEN [pass |-> {Trim(config.password_file[1].text)}, fails |-> FALSE]
         ELSE [pass |-> {}, fails |-> TRUE]
    ELSE [pass |-> Passwords, fails |-> TRUE]

\* Mutant: every Err(_) of load asks for the password again.
init_after_load_any(loaded) ==
    IF loaded = "Ok" THEN "app" ELSE "prompt"

\* init after a load returned: ask again, fail! or return the State.
init_after_load(loaded) ==
    IF loaded = "IncorrectPassword" THEN "prompt"
    ELSE IF loaded = "Ok" THEN "app"
    ELSE "exit"

\* The journal files a run starts with: none, three that save wrote (one
\* with an entry for the day the run starts on, one with a date before the
\* common era), and four that are damaged.
UiFiles ==
    LET bsalt == CHOOSE x \in BcryptSalts : TRUE
        ksalt == CHOOSE x \in KdfSalts : TRUE
        nonce == CHOOSE x \in Nonces : TRUE
        SavedFile(st) ==
            save(st, NoFile, bsalt, ksalt, [d \in DOMAIN st.entries |-> nonce], "written").file
        today == SavedFile([password |-> PwLongA,
                            entries |-> [d \in {Date_today(Local_now)} |-> TextEuro]])
        diary == SavedFile([password |-> PwEmpty,
                            entries |-> [d \in {DateNewYear} |-> TextHello]])
        old == SavedFile([password |-> PwLongA,
                          entries |-> [d \in {DateIdes} |-> TextHello]])
    IN  {NoFile, today, diary, old, NotUtf8File, NotJsonFile,
         DocFile([diary.doc EXCEPT !.password_hash = NotAHash]),
         DocFile([diary.doc EXCEPT !.kdf_salt = BadBase64])}

UiInit ==
    /\ state = State_new
    /\ file \in UiFiles
    /\ op = "new"
    /\ res = "Ok"
    /\ calls = <<>>
    /\ corrupted = FALSE
    /\ arg \in Configs
    /\ out = None
    /\ pc = "main"
    /\ pass = <<>>
    /\ ret = "none"
    /\ start = State_new

\* main up to the call of init: get_config panics (the process ends with
\* code 101), or main ends the process in its checks, or it goes on.
MainStart ==
    /\ pc = "main"
    /\ pc' = (IF get_config(arg).panics THEN "panic"
              ELSE IF main_checks(arg) = None THEN "init" ELSE "exit")
    /\ out' = (IF get_config(arg).panics THEN Some(101) ELSE main_checks(arg))
    /\ UNCHANGED <<state, file, op, res, calls, corrupted, arg, pass, ret, start>>

\* init, no file at the path: the State gets the new password and is returned.
InitNew(password) ==
    /\ pc = "init"
    /\ file.kind = "missing"
    /\ password \in init_password(arg).pass
    /\ pass' = password
    /\ state' = change_password(state, password)
    /\ start' = change_password(state, password)
    /\ op' = "change_password"
    /\ pc' = "app"
    /\ UNCHANGED <<file, res, calls, corrupted, arg, out, ret>>

\* state.load(jrn_path, &pass, e): the first one (ui.rs:102) with the
\* password init starts with, the ones of the loop (ui.rs:107) with the
\* answer to the prompt; calls are the primitive calls of this load.
InitLoad(password) ==
    /\ \/ pc = "init" /\ file.kind # "missing" /\ password \in init_password(arg).pass
       \/ pc = "prompt"
    /\ pass' = password
    /\ \E readable \in BOOLEAN : \E o \in load(state, file, password, readable) :
        /\ state' = o.state
        /\ file' = o.file
        /\ res' = (IF o.tag = "Err" THEN o.err ELSE o.tag)
        /\ calls' = o.calls
        /\ pc' = (IF o.tag = "Panic" THEN "panic"
                  ELSE IF pc = "init" THEN "loaded" ELSE "reloaded")
    /\ op' = "load"
    /\ UNCHANGED <<corrupted, arg, out, ret, start>>

\* What init does with the result of the load.
InitAfterLoad ==
    /\ pc \in {"loaded", "reloaded"}
    /\ pc' = init_after_load(res)
    /\ out' = (IF init_after_load(res) = "exit" THEN Some(1) ELSE out)
    /\ start' = state
    /\ UNCHANGED <<state, file, op, res, calls, corrupted, arg, pass, ret>>

\* init ends the process before a load: the password it starts with cannot
\* be had, or the prompt of the loop cannot be shown (fail!).
InitFails ==
    /\ \/ pc = "init" /\ init_password(arg).fails
       \/ pc = "prompt"
    /\ pc' = "exit"
    /\ out' = Some(1)
    /\ UNCHANGED <<state, file, op, res, calls, corrupted, arg, pass, ret, start>>

\* app without the loop: one call of _app.
AppOnce ==
    /\ pc = "app"
    /\ ~should_loop(arg, arg.subcommand)
    /\ \E o \in _app(arg.subcommand, state) :
        /\ state' = o.state
        /\ ret' = o.result
        /\ out' = o.code
        /\ pc' = (IF o.result = "Exit" THEN "exit" ELSE "returned")
    /\ op' = "app"
    /\ UNCHANGED <<file, res, calls, corrupted, arg, pass, start>>

\* One iteration of app's loop: the first with the subcommand, the later
\* ones with the menu.
AppLoop ==
    /\ pc \in {"app", "loop"}
    /\ should_loop(arg, arg.subcommand)
    /\ \E o \in _app(IF pc = "app" THEN arg.subcommand ELSE None, state) :
        LET before == IF pc = "app" THEN "DidntChangeState" ELSE ret
        IN  /\ state' = o.state
            /\ ret' = (IF o.result = "Exit" THEN "Exit" ELSE app_ret(before, o.result))
            /\ out' = o.code
            /\ pc' = (IF o.result = "Exit" THEN "exit"
                      ELSE IF o.result = "Quit" THEN "returned" ELSE "loop")
    /\ op' = "app"
    /\ UNCHANGED <<file, res, calls, corrupted, arg, pass, start>>

\* main after app returned ChangedState: save, fail! on an error.
MainSave ==
    /\ pc = "returned"
    /\ ret = "ChangedState"
    /\ \E bsalt \in BcryptSalts, ksalt \in KdfSalts,
          nonceOf \in [DOMAIN state.entries -> Nonces], writable \in Writable(file) :
            LET r == save(state, file, bsalt, ksalt, nonceOf, writable)
            IN  /\ file' = r.file
                /\ res' = (IF r.tag = "Ok" THEN "Ok" ELSE r.err)
                /\ pc' = (IF r.tag = "Ok" THEN "done" ELSE "exit")
                /\ out' = (IF r.tag = "Ok" THEN Some(0) ELSE Some(1))
    /\ op' = "save"
    /\ calls' = encrypt_journal_calls(state)
    /\ UNCHANGED <<state, corrupted, arg, pass, ret, start>>

\* main after app returned anything else: nothing is written.
MainEnd ==
    /\ pc = "returned"
    /\ ret # "ChangedState"
    /\ pc' = "done"
    /\ out' = Some(0)
    /\ UNCHANGED <<state, file, op, res, calls, corrupted, arg, pass, ret, start>>

UiNext ==
    \/ MainStart
    \/ \E p \in Passwords : InitNew(p)
    \/ \E p \in Passwords : InitLoad(p)
    \/ InitAfterLoad
    \/ InitFails
    \/ AppOnce
    \/ AppLoop
    \/ MainSave
    \/ MainEnd

UiSpec == UiInit /\ [][UiNext]_vars

\* C18: in init with an existing file, a load that gave IncorrectPassword is
\* followed by a password prompt and, once it is answered, by another load of
\* the same file with the password entered; any other error of load ends the
\* run with no further load; init returns only after a load returned Ok, and
\* the State returned is one that load decrypts from the file with the
\* password entered last.
InitRetryLoop ==
    /\ [][(pc \in {"loaded", "reloaded"}) /\ res = "IncorrectPassword" =>
            pc' = "prompt"]_vars
    /\ [][pc = "prompt" /\ pass' # pass =>
            op' = "load" /\ pc' \in {"reloaded", "panic"} /\ file' = file]_vars
    /\ [][pc = "prompt" =>
            \/ op' = "load" /\ pc' \in {"reloaded", "panic"} /\ file' = file
            \/ pc' = "exit" /\ state' = state]_vars
    /\ [][(pc \in {"loaded", "reloaded"}) /\ res \notin {"IncorrectPassword", "Ok"} =>
            pc' = "exit" /\ out' = Some(1)]_vars
    /\ [][pc # "exit"]_vars
    /\ [][pc # "app" /\ pc' = "app" /\ file.kind # "missing" =>
            /\ pc \in {"loaded", "reloaded"} /\ op = "load" /\ res = "Ok"
            /\ state' = state
            /\ state.password = pass
            /\ \E o \in load(State_new, file, pass, TRUE) : o.tag = "Ok" /\ o.state = state]_vars

\* A load in the loop, made after a load with a wrong password, has returned
\* the State of a journal with an entry.
InitRetryLoopWitness ==
    /\ pc = "reloaded"
    /\ op = "load"
    /\ res = "Ok"
    /\ calls = <<"verify_password", "gen_key", "decrypt_journal_entry">>
    /\ DOMAIN state.entries = {DateNewYear}
    /\ pass = PwEmpty

\* C20: when app returns and the State is not the one app was called with,
\* what it returns is ChangedState; in the loop a ChangedState is kept by every
\* later iteration; and main's next step after ChangedState is save.
AppReportsChange ==
    /\ [](pc = "returned" /\ state # start => ret = "ChangedState")
    /\ [][pc = "loop" /\ ret = "ChangedState" /\ pc' \in {"loop", "returned"} =>
            ret' = "ChangedState"]_vars
    /\ [][pc = "returned" /\ ret = "ChangedState" => op' = "save"]_vars

\* The digits of N in the text "today-N", or <<>> when the text is not of
\* that form.
DaysBack(text) ==
    LET s == ToLowercase(Trim(text))
        after == Trim(SubSeq(s, 6, Len(s)))
        digits == Trim(Tail(after))
    IN  IF StartsWith(s, TextToday) /\ after # <<>> /\ after[1] = ChDash
           /\ digits # <<>> /\ AllDigits(digits)
        THEN digits ELSE <<>>

\* C22: for a text "today-N", from_str fails or returns the date N days before
\* today, and never a date after today.
TodayMinusExact ==
    (op = "from_str" /\ DaysBack(arg) # <<>> /\ res = "Ok") =>
        /\ DaysFromCivil(out.date) <= DaysFromCivil(Date_today(Local_now))
        /\ LET n == DecValue(DaysBack(arg), 0, MaxI32)
           IN  n >= 0 /\ DaysFromCivil(Date_today(Local_now)) - DaysFromCivil(out.date) = n

(***************************************************************************)
(* Display and from_str of a Date in turn: arg is the Date, out the text   *)
(* and then the result of parsing it.                                      *)
(***************************************************************************)

\* Dates a State can hold: years over the whole i32 range, every month with
\* its first and last days.
HeldDates ==
    { x \in { MkDate(y, m, d) :
                y \in {0 - MaxI32, -262144, MinYear, -44, -1, 0, 1, 5, 999, 2024,
                       MaxYear, 262143, MaxI32},
                m \in {1, 2, 4, 12},
                d \in {1, 9, 28, 29, 30, 31} } :
        x.day <= DaysInMonth(x.year, x.month) }

DisplayInit == Fresh /\ arg \in HeldDates /\ out = <<>> /\ NoRun

\* d.to_string(), which is also what Serialize writes
DisplayDate ==
    /\ op = "new"
    /\ out' = Date_to_string(arg)
    /\ op' = "to_string"
    /\ UNCHANGED <<state, file, res, calls, corrupted, arg, pc, pass, ret, start>>

\* Date::from_str of that text, which is also what Deserialize does
ParseBack ==
    /\ op = "to_string"
    /\ out' = Date_from_str(out)
    /\ op' = "from_str"
    /\ res' = (IF Date_from_str(out).ok THEN "Ok" ELSE Date_from_str(out).err)
    /\ UNCHANGED <<state, file, calls, corrupted, arg, pc, pass, ret, start>>

DisplayNext == DisplayDate \/ ParseBack

DisplaySpec == DisplayInit /\ [][DisplayNext]_vars

\* C21: parsing the text Display gives for a Date succeeds and gives that
\* Date, for every year of the i32 range, negative years included.
DateRoundTrip ==
    op = "from_str" => res = "Ok" /\ out.ok /\ out.date = arg

(***************************************************************************)
(* EncryptedJournal::try_from on its own: the stored documents it is       *)
(* called with, and the call.                                              *)
(***************************************************************************)

\* StoredJournals of at most two entries, of different dates.  A salt field
\* is 32 bytes, 31 bytes, 33 bytes, empty or text that is not base64; a nonce
\* field 12, 11 or 13 bytes or text that is not base64; a digest field "hello"
\* in base64, one byte, no bytes, text with a character outside the alphabet,
\* or text whose last symbol has stray bits.
StoredJournals ==
    LET SaltText == Base64Encode(CHOOSE x \in KdfSalts : TRUE)
        SaltTexts ==
            {SaltText, Shortened(SaltText),
             Base64Encode(Base64Decode(SaltText).bytes \o <<7>>), <<>>, BadBase64}
        NonceText == Base64Encode(CHOOSE x \in Nonces : TRUE)
        NonceTexts ==
            {NonceText, Shortened(NonceText),
             Base64Encode(Base64Decode(NonceText).bytes \o <<7>>), BadBase64}
        DigestTexts ==
            {Base64Encode(TextHello), <<81, 81, 61, 61>>, <<>>, BadBase64,
             <<81, 82, 61, 61>>}
        NewYearEntries ==
            { [date |-> DateNewYear, nonce |-> n, digest |-> d] :
                n \in NonceTexts, d \in DigestTexts }
        IdesEntries ==
            { [date |-> DateIdes, nonce |-> n, digest |-> d] :
                n \in {NonceText, Shortened(NonceText), BadBase64},
                d \in {Base64Encode(TextEuro), BadBase64} }
    IN  { [password_hash |-> NotAHash, kdf_salt |-> k, entries |-> es] :
            k \in SaltTexts,
            es \in {{}} \cup { {e} : e \in NewYearEntries \cup IdesEntries }
                        \cup { {e, f} : e \in NewYearEntries, f \in IdesEntries } }

ConvInit ==
    /\ Fresh
    /\ arg \in StoredJournals
    /\ out = <<>>
    /\ NoRun

\* EncryptedJournal::try_from(arg)
TryFrom ==
    /\ op = "new"
    /\ \E c \in EncryptedJournal_try_from(arg) :
        /\ res' = (IF c.ok THEN "Ok" ELSE c.err)
        /\ out' = (IF c.ok THEN c.val ELSE <<>>)
    /\ op' = "try_from"
    /\ UNCHANGED <<state, file, calls, corrupted, arg, pc, pass, ret, start>>

ConvNext == TryFrom

ConvSpec == ConvInit /\ [][ConvNext]_vars

\* What is wrong with a field's text when it has to decode to n bytes
\* (n = -1: to any number of bytes).
Fault(text, n) ==
    LET d == Base64Decode(text)
    IN  IF ~d.ok THEN "NotValidBase64"
        ELSE IF n >= 0 /\ Len(d.bytes) # n THEN "InvalidLength"
        ELSE "none"

\* The first fault of an entry: try_from reads its nonce before its digest.
EntryFault(e) ==
    IF Fault(e.nonce, NonceLen) # "none" THEN Fault(e.nonce, NonceLen)
    ELSE Fault(e.digest, -1)

FieldFaults(doc) ==
    {Fault(doc.kdf_salt, SaltLen)}
    \cup UNION { {Fault(e.nonce, NonceLen), Fault(e.digest, -1)} : e \in doc.entries }

\* The converted journal holds the bytes the texts stand for, all of them.
SameBytes(journal, doc) ==
    /\ journal.password_hash = doc.password_hash
    /\ Len(journal.kdf_salt) = SaltLen
    /\ Base64Encode(journal.kdf_salt) = doc.kdf_salt
    /\ { [date |-> e.date, nonce |-> Base64Encode(e.nonce), digest |-> Base64Encode(e.digest)] :
           e \in journal.entries } = doc.entries
    /\ \A e \in journal.entries : Len(e.nonce) = NonceLen

\* C11 as stated: any wrong length gives InvalidLength and any text that is not
\* base64 gives NotValidBase64, whatever else is wrong with the document.
ConversionErrors ==
    op = "try_from" =>
        /\ "InvalidLength" \in FieldFaults(arg) => res = "InvalidLength"
        /\ "NotValidBase64" \in FieldFaults(arg) => res = "NotValidBase64"
        /\ FieldFaults(arg) = {"none"} => (res = "Ok" /\ SameBytes(out, arg))

\* C11, amended: try_from fails with the fault of the first faulty field it
\* reads (the salt, then entry by entry the nonce before the digest), so with
\* InvalidLength when every fault is a wrong length and with NotValidBase64
\* when every fault is text that is not base64; a digest of any length is
\* accepted and a converted value is never cut or padded.
ConversionFirstError ==
    op = "try_from" =>
        /\ Fault(arg.kdf_salt, SaltLen) # "none" => res = Fault(arg.kdf_salt, SaltLen)
        /\ (Fault(arg.kdf_salt, SaltLen) = "none" /\ FieldFaults(arg) # {"none"}) =>
              \E e \in arg.entries : EntryFault(e) # "none" /\ res = EntryFault(e)
        /\ FieldFaults(arg) = {"none"} => (res = "Ok" /\ SameBytes(out, arg))

\* A salt of 31 bytes was rejected as InvalidLength although a nonce of the
\* document is not base64.
ConversionFirstErrorWitness ==
    /\ op = "try_from" /\ res = "InvalidLength"
    /\ Fault(arg.kdf_salt, SaltLen) = "InvalidLength"
    /\ \E e \in arg.entries : Fault(e.nonce, NonceLen) = "NotValidBase64"

=============================================================================
